---------------------------- MODULE Spec2Model ----------------------------
(***************************************************************************)
(* A model of selfies-js: the SELFIES decoder (derivation engine, deferred *)
(* ring resolution, graph-to-SMILES serialiser), the molecular graph, the  *)
(* SMILES parser and the SELFIES encoder.                                  *)
(*                                                                         *)
(* Conventions.                                                            *)
(*  - A SELFIES or SMILES string is a sequence of tokens (TLC cannot take  *)
(*    a string apart): a bracketed SELFIES symbol, a SMILES atom, bond     *)
(*    character, digit or parenthesis.  HANG is a '[' with no closing ']'. *)
(*  - Atom indices are 0-based as in the code; TLA+ sequences are 1-based, *)
(*    so atom i is atoms[i + 1].                                           *)
(*  - The graph stores bond orders and bond counts in half bonds, so that  *)
(*    the aromatic order 1.5 is the integer 3: Ord(n) is the stored value  *)
(*    of order n.  States, capacities and symbol bond orders are plain.    *)
(***************************************************************************)
EXTENDS Integers, Sequences, FiniteSets, TLC

VARIABLES
    flow,        \* which calls are made: decoder then encoder, or the reverse
    smiles,      \* the argument of encoder(smiles)
    encoded,     \* what encoder(smiles) returned or threw
    selfies,     \* the argument of decoder(selfies), DRAWN when it is drawn
    pc,          \* position of the running call
    constraints, \* currentConstraints: the installed bond-constraints table
    alphabet,    \* which alphabet the input symbols are drawn from
    stream,      \* the forward-only symbol stream of the selfies input
    frames,      \* stack of deriveMolFromSymbols activations, innermost last
    mol,         \* the MolecularGraph being built
    rings,       \* deferred ring triples
    ringPos,     \* formRingsBilocally: number of triples handled
    ringsMade,   \* formRingsBilocally: ring bonds made per atom
    symbolRead,  \* symbol: what the main loop read last (line 114)
    indexRead,   \* symbols: what readIndexFromSelfies collected last
    result,      \* what the call returned
    err,         \* the error that escaped the call, "" when none
    \* bond-constraints as process-wide state, and its caller
    objects,                     \* the mappings alive, by reference
    currentConstraints,          \* reference of the installed table
    semanticRobustAlphabetCache, \* Null or the cached alphabet
    bondingCapacityCache,        \* key -> the capacity memoised for it
    held,        \* references the caller holds
    edits,       \* number of writes the caller made to mappings it holds
    lastSet,     \* the argument of the last setSemanticConstraints that
                 \* returned, as it was when the call was made
    call,        \* the last call: operation, arguments, outcome
    \* a function of the library applied on its own
    subject,     \* which function, and in which order with its inverse
    given,       \* the argument it is given
    outputs,     \* what the applications made so far returned
    attributionMap \* the attribution map the decoder returned

codecVars == <<flow, smiles, encoded, selfies, pc, constraints, alphabet,
               stream, frames, mol, rings, ringPos, ringsMade, symbolRead,
               indexRead, result, err, attributionMap>>

apiVars == <<objects, currentConstraints, semanticRobustAlphabetCache,
             bondingCapacityCache, held, edits, lastSet, call>>

pureVars == <<subject, given, outputs>>

vars == <<flow, smiles, encoded, selfies, pc, constraints, alphabet, stream, frames, mol, rings,
          ringPos, ringsMade, symbolRead, indexRead, result, err,
          objects, currentConstraints, semanticRobustAlphabetCache,
          bondingCapacityCache, held, edits, lastSet, call,
          subject, given, outputs, attributionMap>>

----------------------------------------------------------------------------
(* Bounds of the model *)

\* symbols an input drawn from the semantic-robust alphabet may hold
MaxSymbols == 7
\* symbols an input drawn from a wider alphabet may hold
MaxOtherSymbols == 4

----------------------------------------------------------------------------
(* Small helpers *)

Min2(a, b) == IF a <= b THEN a ELSE b
Max2(a, b) == IF a >= b THEN a ELSE b
Min3(a, b, c) == Min2(a, Min2(b, c))

\* State = number | null
Null == -1
\* maxDerive of the outermost frame
INFINITY == 999999
\* an Atom object that was never added to the graph: atom.index === null
DETACHED == -2
\* the value of a property that is not there
UNDEFINED == -3

\* stored value of bond order n (half bonds)
Ord(n) == n * 2
\* the aromatic bond order 1.5 in half bonds
ORDER_AROMATIC == 3

Digit(n) ==
    CASE n = 0 -> "0" [] n = 1 -> "1" [] n = 2 -> "2" [] n = 3 -> "3"
      [] n = 4 -> "4" [] n = 5 -> "5" [] n = 6 -> "6" [] n = 7 -> "7"
      [] n = 8 -> "8" [] OTHER -> "9"

\* Number.prototype.toString
RECURSIVE IntToStr(_)
IntToStr(n) ==
    IF n < 0 THEN "-" \o IntToStr(0 - n)
    ELSE IF n < 10 THEN Digit(n)
    ELSE IntToStr(n \div 10) \o Digit(n % 10)

\* the characters of n.toString(), one token each
RECURSIVE DigitTokens(_)
DigitTokens(n) ==
    IF n < 10 THEN <<Digit(n)>>
    ELSE Append(DigitTokens(n \div 10), Digit(n % 10))

RECURSIVE JoinTokens(_)
JoinTokens(toks) ==
    IF toks = <<>> THEN "" ELSE Head(toks) \o JoinTokens(Tail(toks))

InsertAt(seq, pos, x) ==
    SubSeq(seq, 1, pos) \o <<x>> \o SubSeq(seq, pos + 1, Len(seq))

SeqToSet(seq) == {seq[i] : i \in 1..Len(seq)}

----------------------------------------------------------------------------
(* constants.ts is not part of the sources; its tables are taken from the  *)
(* specification (section 4.1 and scenario 1: [=Branch1] is digit 4).      *)

INDEX_ALPHABET ==
    << "[C]", "[Ring1]", "[Ring2]", "[Branch1]", "[=Branch1]", "[#Branch1]",
       "[Branch2]", "[=Branch2]", "[#Branch2]", "[O]", "[N]", "[=N]", "[=C]",
       "[#C]", "[S]", "[P]" >>

INDEX_CODE ==
    [s \in SeqToSet(INDEX_ALPHABET) |->
        (CHOOSE i \in 1..Len(INDEX_ALPHABET) : INDEX_ALPHABET[i] = s) - 1]

ORGANIC_SUBSET == {"B", "C", "N", "O", "P", "S", "F", "Cl", "Br", "I"}

AROMATIC_SUBSET == {"b", "c", "n", "o", "p", "s"}

ELEMENTS == ORGANIC_SUBSET \cup {"H"}

----------------------------------------------------------------------------
(* bond-constraints *)

DEFAULT_CONSTRAINTS ==
    [k \in {"H", "F", "Cl", "Br", "I", "B", "B+1", "B-1", "O", "O+1", "O-1",
            "N", "N+1", "N-1", "C", "C+1", "C-1", "P", "P+1", "P-1",
            "S", "S+1", "S-1", "?"} |->
        CASE k \in {"H", "F", "Cl", "Br", "I", "O-1"} -> 1
          [] k \in {"B+1", "O", "N-1"} -> 2
          [] k \in {"B", "O+1", "N", "C+1", "C-1"} -> 3
          [] k \in {"B-1", "N+1", "C", "P+1"} -> 4
          [] k \in {"P", "S+1", "S-1"} -> 5
          [] k \in {"P-1", "S"} -> 6
          [] OTHER -> 8]

\* the table the test 'change constraints cache clear' installs
CarbonOneConstraints == [DEFAULT_CONSTRAINTS EXCEPT !["C"] = 1]

\* the tables the model installs
Tables == {DEFAULT_CONSTRAINTS, CarbonOneConstraints}

\* currentConstraints[key] ?? currentConstraints["?"]
TableEntry(table, key) ==
    IF key \in DOMAIN table THEN table[key]
    ELSE IF "?" \in DOMAIN table THEN table["?"]
    ELSE UNDEFINED

ChargeSuffix(charge) ==
    IF charge = 0 THEN ""
    ELSE (IF charge > 0 THEN "+" ELSE "") \o IntToStr(charge)

GetBondingCapacity(table, element, charge) ==
    LET key == element \o ChargeSuffix(charge)
    IN  IF key \in DOMAIN table THEN table[key] ELSE table["?"]

\* Atom.bondingCapacity
BondingCapacity(table, atom) ==
    GetBondingCapacity(table, atom.element, atom.charge)
        - (IF atom.hCount = Null THEN 0 ELSE atom.hCount)

\* getSemanticRobustAlphabet
GetSemanticRobustAlphabet(table) ==
    LET multiplicity == [b \in {"", "=", "#"} |->
                            IF b = "" THEN 1 ELSE IF b = "=" THEN 2 ELSE 3]
        atomSymbols ==
            {"[" \o b \o k \o "]" :
                <<b, k>> \in {p \in {"", "=", "#"} \X (DOMAIN table) :
                                 /\ p[2] # "?"
                                 /\ multiplicity[p[1]] <= table[p[2]]}}
        structural ==
            UNION {{"[Ring" \o IntToStr(i) \o "]", "[=Ring" \o IntToStr(i) \o "]",
                    "[Branch" \o IntToStr(i) \o "]",
                    "[=Branch" \o IntToStr(i) \o "]",
                    "[#Branch" \o IntToStr(i) \o "]"} : i \in 1..3}
        \* the pattern /^\[([=#]?)([A-Z][a-z]?)\]$/ on the index symbols
        indexAtoms ==
            [s \in {"[C]", "[O]", "[N]", "[=N]", "[=C]", "[#C]", "[S]", "[P]"} |->
                CASE s = "[C]" -> <<"", "C">> [] s = "[O]" -> <<"", "O">>
                  [] s = "[N]" -> <<"", "N">> [] s = "[=N]" -> <<"=", "N">>
                  [] s = "[=C]" -> <<"=", "C">> [] s = "[#C]" -> <<"#", "C">>
                  [] s = "[S]" -> <<"", "S">> [] OTHER -> <<"", "P">>]
        indexSymbols ==
            {s \in SeqToSet(INDEX_ALPHABET) :
                s \in DOMAIN indexAtoms =>
                    LET capacity == TableEntry(table, indexAtoms[s][2])
                    IN  /\ capacity # UNDEFINED
                        /\ multiplicity[indexAtoms[s][1]] <= capacity}
    IN  atomSymbols \cup structural \cup indexSymbols

----------------------------------------------------------------------------
(* grammar-rules: symbol processing *)

\* the bounded family of strings SELFIES_ATOM_PATTERN is tried on, by capture
\* group: bond, isotope, element, chirality, H digit, charge
AtomForms ==
    {"", "=", "#", "/"} \X {"", "13"}
        \X {"C", "N", "O", "P", "S", "F", "H", "Xx"}
        \X {"", "@@"} \X {"", "1", "3"} \X {"", "+1", "-1"}

AtomFormSymbol(m) ==
    "[" \o m[1] \o m[2] \o m[3] \o m[4]
        \o (IF m[5] = "" THEN "" ELSE "H" \o m[5]) \o m[6] \o "]"

\* SELFIES_ATOM_PATTERN.exec: the capture groups of each string that matches
SELFIES_ATOM_PATTERN == [s \in {AtomFormSymbol(m) : m \in AtomForms} |->
                            CHOOSE m \in AtomForms : AtomFormSymbol(m) = s]

\* parseInt(_, 10) on the digit strings of the atom forms
ParseInt(digits) ==
    CASE digits = "0" -> 0 [] digits = "1" -> 1 [] digits = "3" -> 3
      [] digits = "13" -> 13 [] OTHER -> 0

NewAtom(element, isAromatic, isotope, chirality, hCount, charge) ==
    [element |-> element, isAromatic |-> isAromatic, isotope |-> isotope,
     chirality |-> chirality, hCount |-> hCount, charge |-> charge]

\* smilesToBond: <<order, stereo>>, stereo "" standing for null
SmilesToBond(bondChar) ==
    CASE bondChar = "" -> <<1, "">>
      [] bondChar = "=" -> <<2, "">>
      [] bondChar = "#" -> <<3, "">>
      [] bondChar = "/" -> <<1, "/">>
      [] bondChar = "\\" -> <<1, "\\">>
      [] OTHER -> <<1, "">>

\* the value null of a failed symbol lookup
NoOutput == <<>>

\* processAtomSelfiesNoCache: <<bondInfo, atom>> or null
ProcessAtomSelfiesNoCache(symbol) ==
    IF symbol \notin DOMAIN SELFIES_ATOM_PATTERN THEN NoOutput
    ELSE LET m == SELFIES_ATOM_PATTERN[symbol]
             innerSymbol == m[2] \o m[3] \o m[4]
                              \o (IF m[5] = "" THEN "" ELSE "H" \o m[5]) \o m[6]
         IN  IF innerSymbol \in ORGANIC_SUBSET
             THEN <<SmilesToBond(m[1]), NewAtom(m[3], FALSE, Null, "", Null, 0)>>
             ELSE IF m[3] \notin ELEMENTS THEN NoOutput
             ELSE <<SmilesToBond(m[1]),
                    NewAtom(m[3], FALSE,
                            IF m[2] = "" THEN Null ELSE ParseInt(m[2]),
                            m[4],
                            IF m[5] = "" THEN 0 ELSE ParseInt(m[5]),
                            IF m[6] = "" THEN 0
                            ELSE IF m[6] = "+1" THEN ParseInt("1")
                            ELSE 0 - ParseInt("1"))>>

\* processAtomSymbol with the capacity test written as <= 0: an atom whose
\* hydrogens use up its whole capacity is rejected too
ProcessAtomSymbolRejectsFull(table, symbol) ==
    LET output == ProcessAtomSelfiesNoCache(symbol)
    IN  IF output = NoOutput THEN NoOutput
        ELSE IF BondingCapacity(table, output[2]) <= 0 THEN NoOutput
        ELSE output

\* processAtomSymbol
ProcessAtomSymbol(table, symbol) ==
    LET output == ProcessAtomSelfiesNoCache(symbol)
    IN  IF output = NoOutput THEN NoOutput
        ELSE IF BondingCapacity(table, output[2]) < 0 THEN NoOutput
        ELSE output

\* PROCESS_BRANCH_CACHE as buildBranchCache fills it: symbol -> <<order, L>>
PROCESS_BRANCH_CACHE ==
    [s \in {"[" \o b \o "Branch" \o IntToStr(L) \o "]" :
                <<b, L>> \in {"", "=", "#"} \X (1..3)} |->
        CHOOSE p \in (1..3) \X (1..3) :
            \E b \in {"", "=", "#"} :
                /\ s = "[" \o b \o "Branch" \o IntToStr(p[2]) \o "]"
                /\ p[1] = SmilesToBond(b)[1]]

\* PROCESS_RING_CACHE as buildRingCache fills it for the plain ring symbols:
\* symbol -> <<order, L, stereo>>
PROCESS_RING_CACHE ==
    [s \in {"[" \o b \o "Ring" \o IntToStr(L) \o "]" :
                <<b, L>> \in {"", "=", "#"} \X (1..3)} |->
        CHOOSE p \in (1..3) \X (1..3) \X {""} :
            \E b \in {"", "=", "#"} :
                /\ s = "[" \o b \o "Ring" \o IntToStr(p[2]) \o "]"
                /\ p[1] = SmilesToBond(b)[1]]

ProcessBranchSymbol(symbol) ==
    IF symbol \in DOMAIN PROCESS_BRANCH_CACHE
    THEN PROCESS_BRANCH_CACHE[symbol] ELSE NoOutput

ProcessRingSymbol(symbol) ==
    IF symbol \in DOMAIN PROCESS_RING_CACHE
    THEN PROCESS_RING_CACHE[symbol] ELSE NoOutput

\* nextAtomState without the clamp against state: the bond order is
\* min(bondOrder, bondCap)
NextAtomStateIgnoresState(bondOrder, bondCap, state) ==
    LET b0 == IF state = 0 THEN 0 ELSE bondOrder
        b1 == Min2(b0, bondCap)
        bondsLeft == bondCap - b1
    IN  <<b1, IF bondsLeft = 0 THEN Null ELSE bondsLeft>>

\* nextAtomState without the clamp against bondCap: the bond order is
\* min(bondOrder, state)
NextAtomStateIgnoresCap(bondOrder, bondCap, state) ==
    LET b0 == IF state = 0 THEN 0 ELSE bondOrder
        b1 == Min2(b0, IF state = Null THEN 0 ELSE state)
        bondsLeft == bondCap - b1
    IN  <<b1, IF bondsLeft <= 0 THEN Null ELSE bondsLeft>>

\* nextAtomState: <<bond order, next state>>
NextAtomState(bondOrder, bondCap, state) ==
    LET b0 == IF state = 0 THEN 0 ELSE bondOrder
        b1 == Min3(b0, IF state = Null THEN 0 ELSE state, bondCap)
        bondsLeft == bondCap - b1
    IN  <<b1, IF bondsLeft = 0 THEN Null ELSE bondsLeft>>

\* nextBranchState that hands the caller its whole state back
NextBranchStateKeepsState(branchType, state) ==
    <<Min2(state - 1, branchType), state>>

\* nextBranchState, called with state > 1
NextBranchState(branchType, state) ==
    LET branchInitState == Min2(state - 1, branchType)
        nextState == state - branchInitState
    IN  <<branchInitState, IF nextState = 0 THEN Null ELSE nextState>>

\* nextRingState, called with state > 0
NextRingState(ringType, state) ==
    LET bondOrder == Min2(ringType, state)
        bondsLeft == state - bondOrder
    IN  <<bondOrder, IF bondsLeft = 0 THEN Null ELSE bondsLeft>>

\* getSelfiesFromIndex without the reverse of line 120: the least
\* significant digit comes first
RECURSIVE GetSelfiesFromIndexLeastFirst(_)
GetSelfiesFromIndexLeastFirst(index) ==
    LET base == Len(INDEX_ALPHABET)
    IN  IF index < base THEN <<INDEX_ALPHABET[index + 1]>>
        ELSE <<INDEX_ALPHABET[(index % base) + 1]>>
                 \o GetSelfiesFromIndexLeastFirst(index \div base)

\* getIndexFromSelfies with the fallback of the lookup written as 1: a symbol
\* outside INDEX_CODE counts as digit 1
RECURSIVE GetIndexUnknownAsOne(_)
GetIndexUnknownAsOne(symbols) ==
    IF symbols = <<>> THEN 0
    ELSE LET last == symbols[Len(symbols)]
             code == IF last \in DOMAIN INDEX_CODE THEN INDEX_CODE[last] ELSE 1
         IN  code + Cardinality(DOMAIN INDEX_CODE)
                        * GetIndexUnknownAsOne(SubSeq(symbols, 1, Len(symbols) - 1))

\* getIndexFromSelfies
RECURSIVE GetIndexFromSelfies(_)
GetIndexFromSelfies(symbols) ==
    IF symbols = <<>> THEN 0
    ELSE LET last == symbols[Len(symbols)]
             code == IF last \in DOMAIN INDEX_CODE THEN INDEX_CODE[last] ELSE 0
         IN  code + Cardinality(DOMAIN INDEX_CODE)
                        * GetIndexFromSelfies(SubSeq(symbols, 1, Len(symbols) - 1))

\* getSelfiesFromIndex, for index >= 0
RECURSIVE GetSelfiesFromIndex(_)
GetSelfiesFromIndex(index) ==
    LET base == Len(INDEX_ALPHABET)
    IN  IF index < base THEN <<INDEX_ALPHABET[index + 1]>>
        ELSE Append(GetSelfiesFromIndex(index \div base),
                    INDEX_ALPHABET[(index % base) + 1])

----------------------------------------------------------------------------
(* mol-graph: MolecularGraph *)

\* new MolecularGraph(): bonds is the heap of DirectedBond objects, which
\* bondDict and adjList refer to by position; fault is the message of an
\* Error a graph method threw, "" when none; attribution maps an atom
\* (<<"atom", index>>) or a bond (<<"bond", position in bonds>>) to its
\* Attribution list
EmptyMol ==
    [roots |-> <<>>, atoms |-> <<>>, bonds |-> <<>>, bondDict |-> <<>>,
     adjList |-> <<>>, bondCounts |-> <<>>, ringBondFlags |-> <<>>,
     delocalSubgraph |-> <<>>, attribution |-> <<>>, attributable |-> FALSE,
     fault |-> ""]

\* new MolecularGraph(attributable)
NewMolecularGraph(attributable) ==
    [EmptyMol EXCEPT !.attributable = attributable]

\* new Attribution(index, token)
NewAttribution(index, token) == [index |-> index, token |-> token]

\* the Atom with index idx, and the DirectedBond at position id, as keys of
\* _attribution
AtomObject(idx) == <<"atom", idx>>
BondObject(id) == <<"bond", id>>

\* getAttribution: whether it returns a list and not null, and the list
HasAttribution(m, o) == m.attributable /\ o \in DOMAIN m.attribution
GetAttribution(m, o) == m.attribution[o]

\* addAttribution, for attr that is not null
AddAttribution(m, o, attr) ==
    IF ~m.attributable THEN m
    ELSE IF o \in DOMAIN m.attribution
    THEN [m EXCEPT !.attribution[o] = @ \o attr]
    ELSE [m EXCEPT !.attribution = (o :> attr) @@ @]

NewDirectedBond(src, dst, order, stereo, ringBond) ==
    [src |-> src, dst |-> dst, order |-> order, stereo |-> stereo,
     ringBond |-> ringBond]

MolLength(m) == Len(m.atoms)

GetAtom(m, idx) == m.atoms[idx + 1]

GetBondCount(m, idx) == m.bondCounts[idx + 1]

GetOutDirBonds(m, src) == [i \in 1..Len(m.adjList[src + 1]) |->
                              m.bonds[m.adjList[src + 1][i]]]

HasOutRingBond(m, src) == m.ringBondFlags[src + 1]

GetRoots(m) == m.roots

\* hasBond that finds no bond
HasBondFindsNone(m, a, b) == FALSE

\* hasBond
HasBond(m, a, b) == <<Min2(a, b), Max2(a, b)>> \in DOMAIN m.bondDict

\* getDirBond: the bond stored under the key "src,dst", when there is one
HasDirBond(m, src, dst) == <<src, dst>> \in DOMAIN m.bondDict
GetDirBond(m, src, dst) == m.bonds[m.bondDict[<<src, dst>>]]

\* the keys of _delocalSubgraph, in insertion order
DelocalHas(m, idx) ==
    \E i \in 1..Len(m.delocalSubgraph) : m.delocalSubgraph[i].atom = idx

DelocalEnsure(m, idx) ==
    IF DelocalHas(m, idx) THEN m
    ELSE [m EXCEPT !.delocalSubgraph = Append(@, [atom |-> idx, nbrs |-> <<>>])]

DelocalPush(m, idx, nbr) ==
    [m EXCEPT !.delocalSubgraph =
        [i \in 1..Len(@) |->
            IF @[i].atom = idx THEN [@[i] EXCEPT !.nbrs = Append(@, nbr)]
            ELSE @[i]]]

\* the delocalSubgraph updates addBond and addRingBond make for order 1.5
DelocalLink(m, a, b, order) ==
    IF order # ORDER_AROMATIC THEN m
    ELSE DelocalPush(DelocalPush(DelocalEnsure(DelocalEnsure(m, a), b), a, b),
                     b, a)

\* addAtom: the new atom gets index m.length
AddAtom(m, atom, markRoot) ==
    LET idx == MolLength(m)
        m1 == [m EXCEPT !.roots = IF markRoot THEN Append(@, idx) ELSE @,
                        !.atoms = Append(@, atom),
                        !.adjList = Append(@, <<>>),
                        !.bondCounts = Append(@, 0),
                        !.ringBondFlags = Append(@, FALSE)]
    IN  IF atom.isAromatic THEN DelocalEnsure(m1, idx) ELSE m1

\* _addBondAtLoc: no placeholder is ever pushed by the callers modelled, so
\* outEdges[pos] is never null
AddBondAtLoc(m, bond, pos) ==
    LET id == Len(m.bonds) + 1
        outEdges == m.adjList[bond.src + 1]
        edges == IF pos = -1 \/ pos = Len(outEdges) THEN Append(outEdges, id)
                 ELSE InsertAt(outEdges, Min2(pos, Len(outEdges)), id)
    IN  [m EXCEPT !.bonds = Append(@, bond),
                  !.bondDict = (<<bond.src, bond.dst>> :> id) @@ @,
                  !.adjList[bond.src + 1] = edges]

\* addBond
AddBond(m, src, dst, order, stereo) ==
    IF src >= dst
    THEN [m EXCEPT !.fault = "Source must be less than destination"]
    ELSE LET m1 == AddBondAtLoc(m, NewDirectedBond(src, dst, order, stereo, FALSE),
                                -1)
             m2 == [m1 EXCEPT !.bondCounts[src + 1] = @ + order,
                              !.bondCounts[dst + 1] = @ + order]
         IN  DelocalLink(m2, src, dst, order)

\* addRingBond
AddRingBond(m, a, b, order, aStereo, bStereo, aPos, bPos) ==
    LET m1 == AddBondAtLoc(m, NewDirectedBond(a, b, order, aStereo, TRUE), aPos)
        m2 == AddBondAtLoc(m1, NewDirectedBond(b, a, order, bStereo, TRUE), bPos)
        m3 == [m2 EXCEPT !.bondCounts[a + 1] = @ + order]
        m4 == [m3 EXCEPT !.bondCounts[b + 1] = @ + order]
        m5 == [m4 EXCEPT !.ringBondFlags[a + 1] = TRUE,
                         !.ringBondFlags[b + 1] = TRUE]
    IN  DelocalLink(m5, a, b, order)

\* updateBondOrder
UpdateBondOrder(m, a0, b0, newOrder) ==
    LET a == Min2(a0, b0)
        b == Max2(a0, b0)
    IN  IF ~(Ord(1) <= newOrder /\ newOrder <= Ord(3))
        THEN [m EXCEPT !.fault = "Invalid bond order"]
        ELSE IF ~HasDirBond(m, a, b)
        THEN [m EXCEPT !.fault = "Bond not found"]
        ELSE LET aToB == m.bondDict[<<a, b>>]
                 oldOrder == m.bonds[aToB].order
             IN  IF newOrder = oldOrder THEN m
                 ELSE IF m.bonds[aToB].ringBond /\ ~HasDirBond(m, b, a)
                 THEN [m EXCEPT !.fault = "Reverse bond not found"]
                 ELSE LET ids == IF m.bonds[aToB].ringBond
                                 THEN {aToB, m.bondDict[<<b, a>>]} ELSE {aToB}
                          m1 == [m EXCEPT !.bonds =
                                    [i \in 1..Len(@) |->
                                        IF i \in ids
                                        THEN [@[i] EXCEPT !.order = newOrder]
                                        ELSE @[i]]]
                          m2 == [m1 EXCEPT !.bondCounts[a + 1] =
                                                @ + (newOrder - oldOrder)]
                      IN  [m2 EXCEPT !.bondCounts[b + 1] =
                                                @ + (newOrder - oldOrder)]

----------------------------------------------------------------------------
(* smiles-utils: molToSmiles *)

\* new RingContext()
NewRingContext == [nextRingNumber |-> 1, ringBondToNumber |-> <<>>]

\* RingContext.getRingNumber: <<ring number, context after the call>>
GetRingNumber(ctx, atomIdx1, atomIdx2) ==
    LET key1 == <<atomIdx1, atomIdx2>>
        key2 == <<atomIdx2, atomIdx1>>
    IN  IF key1 \in DOMAIN ctx.ringBondToNumber
        THEN <<ctx.ringBondToNumber[key1], ctx>>
        ELSE IF key2 \in DOMAIN ctx.ringBondToNumber
        THEN <<ctx.ringBondToNumber[key2], ctx>>
        ELSE <<ctx.nextRingNumber,
               [nextRingNumber |-> ctx.nextRingNumber + 1,
                ringBondToNumber |->
                    (key1 :> ctx.nextRingNumber) @@ (key2 :> ctx.nextRingNumber)
                        @@ ctx.ringBondToNumber]>>

\* the H-count and charge suffix formatAtomForSmiles and atomToSmiles share
HydrogenAndCharge(atom) ==
    (IF atom.hCount # Null /\ atom.hCount > 0
     THEN "H" \o (IF atom.hCount > 1 THEN IntToStr(atom.hCount) ELSE "")
     ELSE "")
    \o (IF atom.charge = 0 THEN ""
        ELSE IF atom.charge > 0 THEN "+" \o IntToStr(atom.charge)
        ELSE IntToStr(atom.charge))

\* formatAtomForSmiles
FormatAtomForSmiles(atom) ==
    IF /\ atom.element \in ORGANIC_SUBSET
       /\ atom.charge = 0
       /\ atom.chirality = ""
       /\ (atom.isotope = Null \/ atom.isotope = 0)
       /\ (atom.hCount = Null \/ atom.hCount = 0)
    THEN atom.element
    ELSE "[" \o (IF atom.isotope # Null THEN IntToStr(atom.isotope) ELSE "")
             \o atom.element \o atom.chirality \o HydrogenAndCharge(atom) \o "]"

\* moleculeBondToSmiles: the tokens of the bond string
MoleculeBondToSmiles(bond) ==
    IF bond.order = Ord(1)
    THEN (IF bond.stereo = "/" \/ bond.stereo = "\\" THEN <<bond.stereo>>
          ELSE <<>>)
    ELSE IF bond.order = Ord(2) THEN <<"=">>
    ELSE IF bond.order = Ord(3) THEN <<"#">>
    ELSE <<>>

\* the ring-closure digits moleculeAtomToSmiles appends at an atom
RECURSIVE RingDigits(_, _, _, _)
RingDigits(atomIdx, ringBonds, i, acc) ==
    IF i > Len(ringBonds) THEN acc
    ELSE LET got == GetRingNumber(acc.ctx, atomIdx, ringBonds[i].dst)
         IN  RingDigits(atomIdx, ringBonds, i + 1,
                        [toks |-> acc.toks \o DigitTokens(got[1]),
                         ctx |-> got[2]])

\* moleculeAtomToSmiles: the tokens written, the visited set and the ring
\* context after the call
RECURSIVE MoleculeAtomToSmiles(_, _, _, _)
RECURSIVE RegularBondsToSmiles(_, _, _, _)
MoleculeAtomToSmiles(m, atomIdx, visited, ringContext) ==
    IF atomIdx \in visited
    THEN [toks |-> <<>>, visited |-> visited, ctx |-> ringContext,
          attributions |-> <<>>]
    ELSE LET visited1 == visited \cup {atomIdx}
             outBonds == GetOutDirBonds(m, atomIdx)
             ringBonds == SelectSeq(outBonds,
                              LAMBDA b : b.dst # atomIdx /\ b.ringBond)
             regularBonds == SelectSeq(outBonds,
                              LAMBDA b : /\ b.dst # atomIdx
                                         /\ ~b.ringBond
                                         /\ b.dst \notin visited1)
             digits == RingDigits(atomIdx, ringBonds, 1,
                                  [toks |-> <<>>, ctx |-> ringContext])
             atomStr == FormatAtomForSmiles(GetAtom(m, atomIdx))
             \* what is written before the loop over the regular bonds
             atomOnly == {
                 [toks |-> <<atomStr>> \o digits.toks,
                  visited |-> visited1, ctx |-> digits.ctx,
                  attributions |->
                      IF HasAttribution(m, AtomObject(atomIdx))
                      THEN <<[token |-> atomStr,
                              attribution |->
                                  GetAttribution(m, AtomObject(atomIdx))]>>
                      ELSE <<>>]}
         IN  CHOOSE out \in {RegularBondsToSmiles(m, regularBonds, 1, first) :
                                first \in atomOnly} : TRUE

\* the loop of moleculeAtomToSmiles over the regular bonds
RegularBondsToSmiles(m, regularBonds, i, acc) ==
    IF i > Len(regularBonds) THEN acc
    ELSE LET bond == regularBonds[i]
             \* the bond of the adjacency list is the one of bondDict: no
             \* pair of atoms is bonded twice
             bondObject == BondObject(m.bondDict[<<bond.src, bond.dst>>])
             \* the recursive call is made once: child is its value
             withChild == {
                 [toks |-> acc.toks
                             \o (IF i < Len(regularBonds)
                                 THEN <<"(">> \o MoleculeBondToSmiles(bond)
                                          \o child.toks \o <<")">>
                                 ELSE MoleculeBondToSmiles(bond) \o child.toks),
                  visited |-> child.visited, ctx |-> child.ctx,
                  attributions |->
                      acc.attributions
                          \o (IF HasAttribution(m, bondObject)
                              THEN <<[token |-> JoinTokens(MoleculeBondToSmiles(bond)),
                                      attribution |->
                                          GetAttribution(m, bondObject)]>>
                              ELSE <<>>)
                          \o child.attributions] :
                 child \in {MoleculeAtomToSmiles(m, bond.dst, acc.visited,
                                                 acc.ctx)}}
         IN  CHOOSE out \in {RegularBondsToSmiles(m, regularBonds, i + 1, next) :
                                next \in withChild} : TRUE

\* molToSmiles: the fragments of the roots joined by '.'
RECURSIVE RootsToSmiles(_, _, _)
RootsToSmiles(m, roots, i) ==
    IF i > Len(roots) THEN <<>>
    ELSE (IF i > 1 THEN <<".">> ELSE <<>>)
         \o MoleculeAtomToSmiles(m, roots[i], {}, NewRingContext).toks
         \o RootsToSmiles(m, roots, i + 1)

MolToSmiles(m) ==
    IF MolLength(m) = 0 THEN <<>> ELSE RootsToSmiles(m, GetRoots(m), 1)

\* molToSmiles(mol, true): the attribution map returned with the string
RECURSIVE RootsToAttribution(_, _, _)
RootsToAttribution(m, roots, i) ==
    IF i > Len(roots) THEN <<>>
    ELSE MoleculeAtomToSmiles(m, roots[i], {}, NewRingContext).attributions
         \o RootsToAttribution(m, roots, i + 1)

MolToSmilesAttribution(m) ==
    IF MolLength(m) = 0 THEN <<>> ELSE RootsToAttribution(m, GetRoots(m), 1)

----------------------------------------------------------------------------
(* selfies-utils splitSelfies and decoder tokenizeSelfies: the symbol stream *)

\* the result of next() on a finished generator
END == "<done>"
\* a '[' with no ']' after it in its fragment
HANG == "[C"

\* The stream of a fragment.  toks: the symbols of the input not yet read,
\* '.' included, for an input given in full.  free: how many more symbols an
\* input that is drawn while it is read may hold; draw: the symbols it is
\* drawn from.  done: the generator of the current fragment has finished.
FixedStream(toks) == [toks |-> toks, free |-> 0, draw |-> {}, done |-> FALSE]
DrawnStream(draw, free) == [toks |-> <<>>, free |-> free, draw |-> draw,
                            done |-> FALSE]

\* next() on tokenizeSelfies(fragment): every outcome [tok, s] the input
\* allows; tok is a symbol, END, or HANG when splitSelfies throws
RECURSIVE StreamNext(_)
StreamNext(s) ==
    IF s.done THEN {[tok |-> END, s |-> s]}
    ELSE IF s.toks # <<>>
    THEN LET h == Head(s.toks)
             rest == [s EXCEPT !.toks = Tail(@)]
         IN  IF h = "." THEN {[tok |-> END, s |-> [s EXCEPT !.done = TRUE]]}
             ELSE IF h = "[nop]" THEN StreamNext(rest)
             ELSE IF h = HANG
             THEN {[tok |-> HANG, s |-> [rest EXCEPT !.done = TRUE]]}
             ELSE {[tok |-> h, s |-> rest]}
    ELSE IF s.free = 0 THEN {[tok |-> END, s |-> [s EXCEPT !.done = TRUE]]}
    ELSE LET less == [s EXCEPT !.free = @ - 1]
         IN  {[tok |-> END, s |-> [s EXCEPT !.free = 0, !.done = TRUE]]}
             \cup UNION {
                 IF sym = "[nop]" THEN StreamNext(less)
                 ELSE IF sym = "."
                 THEN {[tok |-> END,
                        s |-> [less EXCEPT !.toks = <<".">>, !.done = TRUE]]}
                 ELSE IF sym = HANG
                 THEN {[tok |-> HANG,
                        s |-> [less EXCEPT !.free = 0, !.done = TRUE]]}
                 ELSE {[tok |-> sym, s |-> less]} : sym \in s.draw}

\* readIndexFromSelfies: every outcome [Q, symbols, s, threw]; a finished stream
\* contributes no symbol, a hanging bracket makes next() throw
RECURSIVE ReadIndexSymbols(_, _)
ReadIndexSymbols(s, nSymbols) ==
    IF nSymbols = 0 THEN {[symbols |-> <<>>, s |-> s, threw |-> FALSE]}
    ELSE UNION {
        IF r.tok = HANG
        THEN {[symbols |-> <<>>, s |-> r.s, threw |-> TRUE]}
        ELSE {[symbols |-> (IF r.tok = END THEN <<>> ELSE <<r.tok>>) \o q.symbols,
               s |-> q.s, threw |-> q.threw] :
                    q \in ReadIndexSymbols(r.s, nSymbols - 1)} :
            r \in StreamNext(s)}

\* readIndexFromSelfies on a copy of the stream: the symbols stay on it
ReadIndexLeavesSymbols(s, nSymbols) ==
    {[Q |-> GetIndexFromSelfies(q.symbols), symbols |-> q.symbols, s |-> s,
      threw |-> q.threw] :
        q \in ReadIndexSymbols(s, nSymbols)}

ReadIndexFromSelfies(s, nSymbols) ==
    {[Q |-> GetIndexFromSelfies(q.symbols), symbols |-> q.symbols, s |-> q.s,
      threw |-> q.threw] :
        q \in ReadIndexSymbols(s, nSymbols)}

\* selfies.split('.') with the `if (fragment)` test: the stream at the start
\* of the next non-empty fragment
RECURSIVE DropEmptyFragments(_)
DropEmptyFragments(s) ==
    IF s.toks # <<>> /\ Head(s.toks) = "."
    THEN DropEmptyFragments([s EXCEPT !.toks = Tail(@)])
    ELSE [s EXCEPT !.done = FALSE]

HasFragment(s) == s.toks # <<>> \/ s.free > 0

----------------------------------------------------------------------------
(* decoder *)

\* symbol.includes('Branch'), symbol.includes('Ring'), symbol.includes('eps')
\* on the symbols of the model
SymbolsWithBranch == DOMAIN PROCESS_BRANCH_CACHE \cup {"[Branch4]"}
SymbolsWithRing == DOMAIN PROCESS_RING_CACHE \cup {"[Ring4]"}
SymbolsWithEps == {"[epsilon]"}

\* one activation of deriveMolFromSymbols: its parameters and locals, and for a frame that waits for a branch the n
\* and nextState of lines 123 and 128.  index is the counter of its
\* symbolIterWithIndex, symbolIndex the index of the symbol it read last;
\* attributeStack is <<>> for the null of a call without attribute.
NewFrame(maxDerive, initState, rootAtom, attributeStack, attributionIndex) ==
    [nDerived |-> 0, maxDerive |-> maxDerive, state |-> initState,
     prevAtom |-> rootAtom, n |-> 0, nextState |-> Null,
     attributeStack |-> attributeStack, attributionIndex |-> attributionIndex,
     index |-> 0, symbolIndex |-> 0, terminated |-> FALSE]

\* terminated is history: whether the state of the activation has been null
\* after some step
Terminated(stack) ==
    [i \in 1..Len(stack) |->
        [stack[i] EXCEPT !.terminated = @ \/ stack[i].state = Null]]

\* The generator a branch frame reads is fed by the symbolIterWithIndex of
\* its caller (lines 133-139), so a symbol that any frame reads passes
\* through the generator of every frame below it: each counts it.
CountSymbols(stack, k) ==
    [i \in 1..Len(stack) |-> [stack[i] EXCEPT !.index = @ + k]]

\* the state of one decoder call; attribute is options.attribute
NewDecoder(s) ==
    [pc |-> "start", stream |-> s, frames |-> <<>>, mol |-> EmptyMol,
     rings |-> <<>>, ringPos |-> 0, ringsMade |-> <<>>, symbol |-> "",
     indexSymbols |-> <<>>, result |-> <<>>, err |-> "",
     attributionMap |-> <<>>, attribute |-> TRUE]

Top(d) == d.frames[Len(d.frames)]

Raise(d, kind) == [d EXCEPT !.pc = "error", !.err = kind]

\* the symbol reads of the next iteration of the main loop (line 104) with
\* the decoder after nDerived++
LoopReads(d) ==
    IF d.pc = "derive" /\ Top(d).nDerived < Top(d).maxDerive
    THEN {[tok |-> r.tok,
           d |-> [d EXCEPT !.stream = r.s,
                           !.symbol = r.tok,
                           !.indexSymbols = <<>>,
                           !.frames = CountSymbols(
                               [@ EXCEPT ![Len(@)].nDerived = @ + 1,
                                         ![Len(@)].symbolIndex = Top(d).index],
                               1)]] :
             r \in {x \in StreamNext(d.stream) : x.tok \notin {END, HANG}}}
    ELSE {}

\* decoder, lines 26-55: the empty string returns "C"; otherwise the first
\* non-empty fragment is derived, or none is left
EnterFragment(d, attributionIndex) ==
    LET s == DropEmptyFragments(d.stream)
    IN  IF HasFragment(s)
        THEN [d EXCEPT !.pc = "derive", !.stream = s,
                       !.frames = <<NewFrame(INFINITY, 0, Null, <<>>,
                                             attributionIndex)>>]
        ELSE [d EXCEPT !.pc = "rings", !.stream = s, !.frames = <<>>,
                       !.ringPos = 0,
                       !.ringsMade = [i \in 1..MolLength(d.mol) |-> 0]]

DecoderStart(d) ==
    IF d.pc # "start" THEN {}
    ELSE IF d.stream.toks = <<>> /\ d.stream.free = 0
    THEN {[d EXCEPT !.pc = "done", !.result = <<"C">>]}
    ELSE {EnterFragment([d EXCEPT !.mol = NewMolecularGraph(d.attribute)], 0)}

\* the catch of lines 107-112: next() threw in the main loop
LoopReadThrows(d) ==
    IF d.pc = "derive" /\ Top(d).nDerived < Top(d).maxDerive
    THEN {Raise([d EXCEPT !.stream = r.s, !.symbol = HANG,
                          !.indexSymbols = <<>>], "DecoderError") :
             r \in {x \in StreamNext(d.stream) : x.tok = HANG}}
    ELSE {}

\* raiseDecoderError at lines 120, 160 and 191
InvalidSymbol(table, d) ==
    {Raise(r.d, "DecoderError") :
        r \in {x \in LoopReads(d) :
                 IF x.tok \in SymbolsWithBranch
                 THEN ProcessBranchSymbol(x.tok) = NoOutput
                 ELSE IF x.tok \in SymbolsWithRing
                 THEN ProcessRingSymbol(x.tok) = NoOutput
                 ELSE IF x.tok \in SymbolsWithEps THEN FALSE
                 ELSE ProcessAtomSymbol(table, x.tok) = NoOutput}}

BranchReads(d) ==
    {x \in LoopReads(d) : /\ x.tok \in SymbolsWithBranch
                          /\ ProcessBranchSymbol(x.tok) # NoOutput}

\* lines 125-126: a branch symbol read with state null, 0 or 1
BranchSkipped(d) ==
    {r.d : r \in {x \in BranchReads(d) :
                     Top(d).state = Null \/ Top(d).state <= 1}}

\* lines 128-151 up to the recursive call: the index is read and the branch
\* frame is entered
BranchTaken(d) ==
    UNION {
        LET output == ProcessBranchSymbol(r.tok)
            next == NextBranchState(output[1], Top(d).state)
        IN  {[r.d EXCEPT !.stream = q.s,
                         !.indexSymbols = q.symbols,
                         !.frames = Append(
                             CountSymbols(
                                 [@ EXCEPT ![Len(@)].n = output[2],
                                           ![Len(@)].nextState = next[2]],
                                 Len(q.symbols)),
                             NewFrame(q.Q + 1, next[1], Top(d).prevAtom,
                                      IF d.attribute
                                      THEN Append(Top(r.d).attributeStack,
                                               NewAttribution(
                                                   Top(r.d).symbolIndex
                                                     + Top(r.d).attributionIndex,
                                                   r.tok))
                                      ELSE <<>>,
                                      Top(r.d).attributionIndex))] :
                q \in {x \in ReadIndexFromSelfies(r.d.stream, output[2]) :
                          ~x.threw}} :
        r \in {x \in BranchReads(d) :
                  Top(d).state # Null /\ Top(d).state > 1}}

RingReads(d) ==
    {x \in LoopReads(d) : /\ x.tok \notin SymbolsWithBranch
                          /\ x.tok \in SymbolsWithRing
                          /\ ProcessRingSymbol(x.tok) # NoOutput}

\* lines 165-166: a ring symbol read with state 0 or null
RingSkipped(d) ==
    {r.d : r \in {x \in RingReads(d) :
                     Top(d).state = 0 \/ Top(d).state = Null}}

\* lines 168-180: the index is read and the ring triple is queued
RingTaken(d) ==
    UNION {
        LET output == ProcessRingSymbol(r.tok)
            next == NextRingState(output[1], Top(d).state)
            prevAtom == Top(d).prevAtom
        IN  {[r.d EXCEPT
                !.stream = q.s,
                !.indexSymbols = q.symbols,
                !.frames = CountSymbols(
                    [@ EXCEPT ![Len(@)].nDerived = @ + output[2],
                              ![Len(@)].state = next[2]],
                    Len(q.symbols)),
                !.rings = IF prevAtom >= 0
                          THEN Append(@, [left |-> Max2(0, prevAtom - (q.Q + 1)),
                                          right |-> prevAtom,
                                          order |-> next[1],
                                          stereo |-> output[3]])
                          ELSE @] :
                q \in {x \in ReadIndexFromSelfies(r.d.stream, output[2]) :
                          ~x.threw}} :
        r \in {x \in RingReads(d) :
                  Top(d).state # 0 /\ Top(d).state # Null}}

\* readIndexFromSelfies is called outside any try: the Error of splitSelfies
\* leaves the decoder as it is
IndexReadThrows(d) ==
    UNION {
        LET n == IF r.tok \in SymbolsWithBranch
                 THEN ProcessBranchSymbol(r.tok)[2]
                 ELSE ProcessRingSymbol(r.tok)[2]
        IN  {Raise([r.d EXCEPT !.stream = q.s, !.indexSymbols = q.symbols],
                   "Error") :
                q \in {x \in ReadIndexFromSelfies(r.d.stream, n) : x.threw}} :
        r \in {x \in BranchReads(d) : Top(d).state # Null /\ Top(d).state > 1}
              \cup {x \in RingReads(d) :
                       Top(d).state # 0 /\ Top(d).state # Null}}

\* lines 184-186
Epsilon(d) ==
    {[r.d EXCEPT !.frames[Len(d.frames)].state =
                     IF Top(d).state = 0 THEN 0 ELSE Null] :
        r \in {x \in LoopReads(d) : /\ x.tok \notin SymbolsWithBranch
                                    /\ x.tok \notin SymbolsWithRing
                                    /\ x.tok \in SymbolsWithEps}}

\* lines 189-234: an atom symbol
AtomDerived(table, d) ==
    {LET output == ProcessAtomSymbol(table, r.tok)
         atom == output[2]
         stereo == output[1][2]
         cap == BondingCapacity(table, atom)
         next == NextAtomState(output[1][1], cap, Top(d).state)
         prevAtom == Top(d).prevAtom
         idx == MolLength(d.mol)
         \* lines 204-207, 213-216 and 225-228
         attr == Append(Top(r.d).attributeStack,
                        NewAttribution(Top(r.d).symbolIndex
                                           + Top(r.d).attributionIndex, r.tok))
         added == AddAttribution(AddAtom(d.mol, atom, next[1] = 0),
                                 AtomObject(idx), attr)
         bonded == AddBond(added, Min2(prevAtom, idx), Max2(prevAtom, idx),
                           Ord(next[1]), stereo)
         mol1 == IF next[1] = 0
                 THEN (IF Top(d).state = 0 THEN added ELSE d.mol)
                 ELSE (IF prevAtom >= 0
                       THEN (IF bonded.fault # "" THEN bonded
                             ELSE AddAttribution(bonded,
                                                 BondObject(Len(bonded.bonds)),
                                                 attr))
                       ELSE added)
         d1 == [r.d EXCEPT
                    !.mol = mol1,
                    !.frames[Len(d.frames)].prevAtom =
                        IF MolLength(mol1) > idx THEN idx ELSE DETACHED,
                    !.frames[Len(d.frames)].state = next[2]]
     IN  IF mol1.fault # "" THEN Raise(d1, "Error") ELSE d1 :
        r \in {x \in LoopReads(d) : /\ x.tok \notin SymbolsWithBranch
                                    /\ x.tok \notin SymbolsWithRing
                                    /\ x.tok \notin SymbolsWithEps
                                    /\ ProcessAtomSymbol(table, x.tok) # NoOutput}}

\* the ways the main loop of the innermost frame ends: maxDerive reached, or
\* next() reports done; the loop of lines 240-248 then reads nothing more
LoopEnds(d) ==
    IF d.pc # "derive" THEN {}
    ELSE IF Top(d).nDerived >= Top(d).maxDerive THEN {d}
    ELSE {[d EXCEPT !.stream = r.s] :
             r \in {x \in StreamNext(d.stream) : x.tok = END}}

\* a branch frame returns: lines 141 and 153 of the caller
BranchReturn(d) ==
    IF Len(d.frames) < 2 THEN {}
    ELSE {LET ret == Top(e).nDerived
              k == Len(e.frames) - 1
          IN  [e EXCEPT !.frames =
                  [SubSeq(@, 1, k) EXCEPT
                      ![k].nDerived = @ + e.frames[k].n + ret,
                      ![k].state = e.frames[k].nextState]] :
            e \in LoopEnds(d)}

\* the outermost frame returns: the next fragment, or ring formation
FragmentDone(d) ==
    IF Len(d.frames) # 1 THEN {}
    ELSE {EnterFragment(e, Top(e).attributionIndex + Top(e).nDerived) :
             e \in LoopEnds(d)}

\* formRingsBilocally, lines 274-283: some pair of atoms is queued an odd
\* number of times
HasInvalidRings(ringList) ==
    \E i \in 1..Len(ringList) :
        Cardinality({j \in 1..Len(ringList) :
            /\ Min2(ringList[j].left, ringList[j].right)
                    = Min2(ringList[i].left, ringList[i].right)
            /\ Max2(ringList[j].left, ringList[j].right)
                    = Max2(ringList[i].left, ringList[i].right)}) % 2 # 0

\* lines 285-288: no ring is formed at all
RingsSkipped(d) ==
    IF d.pc = "rings" /\ d.ringPos = 0 /\ HasInvalidRings(d.rings)
    THEN {[d EXCEPT !.pc = "smiles"]}
    ELSE {}

\* the graph and ringsMade after one iteration of the loop of lines 290-328
FormRing(table, m, made, ring) ==
    LET lidx == ring.left
        ridx == ring.right
        leftFree == Ord(BondingCapacity(table, GetAtom(m, lidx)))
                        - GetBondCount(m, lidx)
        rightFree == Ord(BondingCapacity(table, GetAtom(m, ridx)))
                        - GetBondCount(m, ridx)
        finalOrder == Min3(Ord(ring.order), leftFree, rightFree)
    IN  IF lidx = ridx THEN <<m, made>>
        ELSE IF leftFree <= 0 \/ rightFree <= 0 THEN <<m, made>>
        ELSE IF HasBond(m, lidx, ridx)
        THEN IF HasDirBond(m, lidx, ridx)
             THEN <<UpdateBondOrder(m, lidx, ridx,
                        Min2(finalOrder + GetDirBond(m, lidx, ridx).order,
                             Ord(3))),
                    made>>
             ELSE <<[m EXCEPT !.fault = "Bond not found"], made>>
        ELSE <<AddRingBond(m, lidx, ridx, finalOrder, ring.stereo, ring.stereo,
                           made[lidx + 1], made[ridx + 1]),
               [made EXCEPT ![lidx + 1] = @ + 1, ![ridx + 1] = @ + 1]>>

RingStep(table, d) ==
    IF /\ d.pc = "rings"
       /\ ~HasInvalidRings(d.rings)
       /\ d.ringPos < Len(d.rings)
    THEN LET formed == FormRing(table, d.mol, d.ringsMade,
                                d.rings[d.ringPos + 1])
             d1 == [d EXCEPT !.mol = formed[1], !.ringsMade = formed[2],
                             !.ringPos = @ + 1]
         IN  {IF formed[1].fault # "" THEN Raise(d1, "Error") ELSE d1}
    ELSE {}

\* the loop of lines 290-328 is over
RingsFormed(d) ==
    IF /\ d.pc = "rings"
       /\ ~HasInvalidRings(d.rings)
       /\ d.ringPos = Len(d.rings)
    THEN {[d EXCEPT !.pc = "smiles"]}
    ELSE {}

\* line 61
Serialize(d) ==
    IF d.pc = "smiles"
    THEN {[d EXCEPT !.pc = "done", !.result = MolToSmiles(d.mol),
                    !.attributionMap = IF d.attribute
                                       THEN MolToSmilesAttribution(d.mol)
                                       ELSE <<>>]}
    ELSE {}

\* every step the decoder can take next
DecoderSteps(table, d) ==
    DecoderStart(d) \cup LoopReadThrows(d) \cup InvalidSymbol(table, d)
        \cup BranchSkipped(d) \cup BranchTaken(d) \cup RingSkipped(d)
        \cup RingTaken(d) \cup IndexReadThrows(d) \cup Epsilon(d)
        \cup AtomDerived(table, d) \cup BranchReturn(d) \cup FragmentDone(d)
        \cup RingsSkipped(d) \cup RingStep(table, d) \cup RingsFormed(d)
        \cup Serialize(d)

\* decoder(selfies) for an input given in full: the decoder when it has
\* returned or thrown
RECURSIVE RunDecoder(_, _)
RunDecoder(table, d) ==
    IF d.pc \in {"done", "error"} THEN d
    ELSE RunDecoder(table, CHOOSE e \in DecoderSteps(table, d) : TRUE)

\* decoder(selfies): <<the SMILES returned, the error thrown>>
Decoder(table, toks) ==
    LET d == RunDecoder(table, NewDecoder(FixedStream(toks)))
    IN  <<d.result, d.err>>

----------------------------------------------------------------------------
(* smiles-parser: smilesToMol.  A SMILES string is a token sequence: an      *)
(* organic-subset atom, a bracketed atom, a bond character, one ring digit,  *)
(* a parenthesis or the '.' between fragments.                              *)

\* the bounded family of bracketed atoms the parser is given, by part:
\* isotope, element, chirality, hydrogens, charge
BracketForms ==
    {"", "13"} \X {"C", "N", "O", "S", "F", "H", "Xx"} \X {"", "@@"}
        \X {"", "H", "H3"} \X {"", "+1", "-1"}

BracketFormToken(m) == "[" \o m[1] \o m[2] \o m[3] \o m[4] \o m[5] \o "]"

BracketTokens == [t \in {BracketFormToken(m) : m \in BracketForms} |->
                    CHOOSE m \in BracketForms : BracketFormToken(m) = t]

\* parseBracketedAtom on the bracket tokens of the model
ParseBracketedAtom(token) ==
    LET m == BracketTokens[token]
    IN  NewAtom(m[2], FALSE,
                IF m[1] = "" THEN Null ELSE ParseInt(m[1]),
                m[3],
                IF m[4] = "" THEN Null ELSE IF m[4] = "H" THEN 1 ELSE ParseInt("3"),
                IF m[5] = "" THEN 0 ELSE IF m[5] = "+1" THEN 1 ELSE 0 - 1)

\* String.prototype.toUpperCase on the one-letter atoms
ToUpperCase(element) ==
    CASE element = "b" -> "B" [] element = "c" -> "C" [] element = "n" -> "N"
      [] element = "o" -> "O" [] element = "p" -> "P" [] element = "s" -> "S"
      [] element = "f" -> "F" [] element = "i" -> "I"
      [] OTHER -> element

\* element.toLowerCase() === element
IsLowerCase(element) == ToUpperCase(element) # element

BondTokens == {"=", "#", "/", "\\", "-"}
DigitTokenSet == {Digit(n) : n \in 0..9}

\* parseAtom: <<atom, error>>; the atom of a token, or the EncoderError for an
\* unclosed bracket, a bad bracket content or an invalid element
ParseAtom(token) ==
    IF token \in DOMAIN BracketTokens THEN <<ParseBracketedAtom(token), "">>
    ELSE IF \/ ToUpperCase(token) \in ORGANIC_SUBSET
            \/ token \in AROMATIC_SUBSET
    THEN <<NewAtom(token, IsLowerCase(token), Null, "", Null, 0), "">>
    ELSE <<NewAtom("", FALSE, Null, "", Null, 0), "EncoderError">>

\* the bond prefix of lines 57-82: <<order, stereo>> in half bonds
ParseBond(token) ==
    CASE token = "=" -> <<Ord(2), "">>
      [] token = "#" -> <<Ord(3), "">>
      [] token = "/" -> <<Ord(1), "/">>
      [] token = "\\" -> <<Ord(1), "\\">>
      [] OTHER -> <<Ord(1), "">>

\* the locals of parseFragment; currentAtom is an atom index or Null, and
\* ringClosures maps a digit to [atom, bondOrder, stereo]
NewParse(m) ==
    [mol |-> m, currentAtom |-> Null, isFirstAtom |-> TRUE,
     ringClosures |-> <<>>, parenStack |-> <<>>, err |-> ""]

\* lines 88-128: a ring digit, read after a bond prefix <<bondOrder, stereo>>
ParseRingClosure(ps, ringNum, bond) ==
    IF ps.currentAtom = Null THEN ps
    ELSE IF ringNum \in DOMAIN ps.ringClosures
    THEN LET ring == ps.ringClosures[ringNum]
             atom1 == ring.atom
             atom2 == ps.currentAtom
             maxOrder == Max2(bond[1], ring.bondOrder)
             finalBondOrder ==
                 IF /\ maxOrder = Ord(1)
                    /\ GetAtom(ps.mol, atom1).isAromatic
                    /\ GetAtom(ps.mol, atom2).isAromatic
                 THEN ORDER_AROMATIC ELSE maxOrder
         IN  [ps EXCEPT
                !.mol = AddRingBond(@, Min2(atom1, atom2), Max2(atom1, atom2),
                                    finalBondOrder, ring.stereo, bond[2], -1, -1),
                !.ringClosures = [k \in (DOMAIN @) \ {ringNum} |-> @[k]]]
    ELSE [ps EXCEPT !.ringClosures =
            (ringNum :> [atom |-> ps.currentAtom, bondOrder |-> bond[1],
                         stereo |-> bond[2]]) @@ @]

\* lines 130-151: an atom token, read after a bond prefix
ParseAtomToken(ps, token, bond) ==
    LET parsed == ParseAtom(token)
        idx == MolLength(ps.mol)
        mol1 == AddAtom(ps.mol, parsed[1], ps.isFirstAtom)
        actualBondOrder ==
            IF /\ bond[1] = Ord(1)
               /\ GetAtom(ps.mol, ps.currentAtom).isAromatic
               /\ parsed[1].isAromatic
            THEN ORDER_AROMATIC ELSE bond[1]
    IN  IF parsed[2] # "" THEN [ps EXCEPT !.err = parsed[2]]
        ELSE [ps EXCEPT
                !.mol = IF ~ps.isFirstAtom /\ ps.currentAtom # Null
                        THEN AddBond(mol1, Min2(ps.currentAtom, idx),
                                     Max2(ps.currentAtom, idx), actualBondOrder,
                                     bond[2])
                        ELSE mol1,
                !.currentAtom = idx,
                !.isFirstAtom = FALSE]

\* parseFragment: the loop of lines 33-152 from token i on, and the check
\* for unclosed rings
RECURSIVE ParseFragment(_, _, _)
ParseFragment(ps, toks, i) ==
    IF ps.err # "" THEN ps
    ELSE IF ps.mol.fault # "" THEN [ps EXCEPT !.err = "Error"]
    ELSE IF i > Len(toks)
    THEN (IF DOMAIN ps.ringClosures # {} THEN [ps EXCEPT !.err = "EncoderError"]
          ELSE ps)
    ELSE IF toks[i] = "("
    THEN ParseFragment(
            IF ps.currentAtom # Null
            THEN [ps EXCEPT !.parenStack = Append(@, ps.currentAtom)] ELSE ps,
            toks, i + 1)
    ELSE IF toks[i] = ")"
    THEN ParseFragment(
            IF ps.parenStack # <<>>
            THEN [ps EXCEPT !.currentAtom = ps.parenStack[Len(ps.parenStack)],
                            !.parenStack = SubSeq(@, 1, Len(@) - 1)]
            ELSE ps,
            toks, i + 1)
    ELSE LET hasBond == toks[i] \in BondTokens
             bond == IF hasBond THEN ParseBond(toks[i]) ELSE <<Ord(1), "">>
             j == IF hasBond THEN i + 1 ELSE i
         IN  IF j > Len(toks) THEN ParseFragment(ps, toks, j)
             ELSE IF toks[j] \in DigitTokenSet
             THEN ParseFragment(ParseRingClosure(ps, toks[j], bond), toks, j + 1)
             ELSE ParseFragment(ParseAtomToken(ps, toks[j], bond), toks, j + 1)

\* the tokens of toks before the first '.', and those after it
FirstFragment(toks) ==
    IF \E i \in 1..Len(toks) : toks[i] = "."
    THEN SubSeq(toks, 1, (CHOOSE i \in 1..Len(toks) :
                            /\ toks[i] = "."
                            /\ \A k \in 1..(i - 1) : toks[k] # ".") - 1)
    ELSE toks

AfterFirstFragment(toks) ==
    SubSeq(toks, Len(FirstFragment(toks)) + 2, Len(toks))

\* smilesToMol: <<graph, error>> for a non-empty SMILES
RECURSIVE ParseFragments(_, _)
ParseFragments(m, toks) ==
    LET fragment == FirstFragment(toks)
        ps == IF fragment # <<>> THEN ParseFragment(NewParse(m), fragment, 1)
              ELSE NewParse(m)
    IN  IF ps.err # "" THEN <<ps.mol, ps.err>>
        ELSE IF Len(fragment) = Len(toks) THEN <<ps.mol, "">>
        ELSE ParseFragments(ps.mol, AfterFirstFragment(toks))

SmilesToMol(toks) ==
    IF toks = <<>> THEN <<EmptyMol, "EncoderError">>
    ELSE ParseFragments(NewMolecularGraph(TRUE), toks)

----------------------------------------------------------------------------
(* mol-graph: kekulize *)

IsKekulized(m) == Len(m.delocalSubgraph) = 0

\* the inner loop of kekulize over the neighbours of one atom, from the k-th
\* on: [mol, visited, bondOrder]
RECURSIVE KekulizeNeighbors(_, _, _, _)
KekulizeNeighbors(acc, atom, neighbors, k) ==
    IF k > Len(neighbors) THEN acc
    ELSE LET neighbor == neighbors[k]
             key == <<Min2(atom, neighbor), Max2(atom, neighbor)>>
             id == IF key \in DOMAIN acc.mol.bondDict
                   THEN acc.mol.bondDict[key] ELSE 0
             hit == id # 0 /\ acc.mol.bonds[id].order = ORDER_AROMATIC
         IN  IF neighbor \in acc.visited
             THEN KekulizeNeighbors(acc, atom, neighbors, k + 1)
             ELSE KekulizeNeighbors(
                    [mol |-> IF hit
                             THEN [acc.mol EXCEPT !.bonds[id].order =
                                                        Ord(acc.bondOrder)]
                             ELSE acc.mol,
                     visited |-> acc.visited \cup {neighbor},
                     bondOrder |-> IF hit
                                   THEN (IF acc.bondOrder = 1 THEN 2 ELSE 1)
                                   ELSE acc.bondOrder],
                    atom, neighbors, k + 1)

\* the outer loop of kekulize over the entries of _delocalSubgraph
RECURSIVE KekulizeEntries(_, _, _)
KekulizeEntries(m, visited, k) ==
    IF k > Len(m.delocalSubgraph) THEN m
    ELSE LET entry == m.delocalSubgraph[k]
         IN  IF entry.atom \in visited THEN KekulizeEntries(m, visited, k + 1)
             ELSE LET acc == KekulizeNeighbors(
                                [mol |-> m, visited |-> visited, bondOrder |-> 1],
                                entry.atom, entry.nbrs, 1)
                  IN  KekulizeEntries(acc.mol, acc.visited \cup {entry.atom},
                                      k + 1)

\* kekulize: the graph after the call, which always returns true
Kekulize(m) ==
    IF IsKekulized(m) THEN m
    ELSE [KekulizeEntries(m, {}, 1) EXCEPT !.delocalSubgraph = <<>>]

----------------------------------------------------------------------------
(* encoder *)

\* atomToSmiles(atom, false)
AtomToSmiles(atom) ==
    (IF atom.isotope # Null THEN IntToStr(atom.isotope) ELSE "")
        \o ToUpperCase(atom.element) \o atom.chirality
        \o HydrogenAndCharge(atom)

\* bondToSmiles
BondToSmiles(bond) ==
    IF bond.order = Ord(1) THEN bond.stereo
    ELSE IF bond.order = Ord(2) THEN "="
    ELSE IF bond.order = Ord(3) THEN "#"
    ELSE ""

\* bondToSelfies
BondToSelfies(bond, showStereo) ==
    IF ~showStereo /\ bond.order = Ord(1) THEN "" ELSE BondToSmiles(bond)

\* ringBondsToSelfies, for bonds of the same order
RingBondsToSelfies(lBond, rBond) ==
    IF lBond.order # Ord(1) \/ (lBond.stereo = "" /\ rBond.stereo = "")
    THEN BondToSelfies(lBond, FALSE)
    ELSE (IF lBond.stereo = "" THEN "-" ELSE lBond.stereo)
            \o (IF rBond.stereo = "" THEN "-" ELSE rBond.stereo)

\* the token atomToSelfies returns for a non-aromatic atom; hasBond is false
\* for the root atom of a fragment
AtomToSelfies(hasBond, bond, atom) ==
    "[" \o (IF hasBond THEN BondToSelfies(bond, TRUE) ELSE "")
        \o AtomToSmiles(atom) \o "]"

\* checkBondConstraints: some atom has more bonds than the capacity of its
\* element and charge
ViolatesBondConstraints(table, m) ==
    \E i \in 1..Len(m.atoms) :
        m.bondCounts[i] >
            Ord(GetBondingCapacity(table, m.atoms[i].element, m.atoms[i].charge))

\* shouldInvertChirality
ShouldInvertChirality(m, idx) ==
    IF idx = 0 THEN FALSE
    ELSE LET outBonds == GetOutDirBonds(m, idx)
             n == Len(outBonds)
             \* the sort key of position i: partition, then for ring bonds that
             \* leave to a later atom the destination, then the position
             part(i) == IF ~outBonds[i].ringBond THEN 2
                        ELSE IF outBonds[i].src < outBonds[i].dst THEN 1 ELSE 0
             before(i, j) ==
                 \/ part(i) < part(j)
                 \/ /\ part(i) = part(j)
                    /\ IF part(i) = 1 /\ outBonds[i].dst # outBonds[j].dst
                       THEN outBonds[i].dst < outBonds[j].dst
                       ELSE i < j
             count == Cardinality({p \in (1..n) \X (1..n) :
                                      /\ before(p[1], p[2])
                                      /\ p[1] > p[2]})
         IN  count % 2 # 0

\* Atom.invertChirality
InvertChirality(atom) ==
    [atom EXCEPT !.chirality = IF @ = "@" THEN "@@"
                               ELSE IF @ = "@@" THEN "@" ELSE @]

\* the loop of encoder lines 119-123
InvertChiralities(m) ==
    [m EXCEPT !.atoms =
        [i \in 1..Len(@) |->
            IF /\ @[i].chirality # ""
               /\ HasOutRingBond(m, i - 1)
               /\ ShouldInvertChirality(m, i - 1)
            THEN InvertChirality(@[i]) ELSE @[i]]]

\* the TokenAttribution fragmentToSelfies pushes for an atom or a bond, if
\* the graph has an attribution for it
TokenAttributions(m, o, token) ==
    IF HasAttribution(m, o)
    THEN <<[token |-> token, attribution |-> GetAttribution(m, o)]>>
    ELSE <<>>

\* the DirectedBond of the graph, found by its key
BondObjectOf(m, bond) == BondObject(m.bondDict[<<bond.src, bond.dst>>])

\* ringLen with the closing atom counted twice
RingLenCountsBoth(bond) == bond.src - bond.dst + 1

\* fragmentToSelfies line 255: ringLen
RingLen(bond) == bond.src - bond.dst

\* fragmentToSelfies: [derived, err, attributionMaps], attributionMaps being
\* what the call pushes; FragmentBonds is the loop over the out bonds of one
\* atom from position i on, acc holding derived, what was pushed and the
\* error so far
RECURSIVE FragmentToSelfies(_, _, _, _)
RECURSIVE FragmentBonds(_, _, _, _)
FragmentToSelfies(m, hasBond, bondIntoCurr, curr) ==
    LET atom == GetAtom(m, curr)
        outBonds == GetOutDirBonds(m, curr)
        token == AtomToSelfies(hasBond, bondIntoCurr, atom)
    IN  IF atom.isAromatic
        THEN [derived |-> <<>>, err |-> "Error", attributionMaps |-> <<>>]
        ELSE LET acc == FragmentBonds(m, outBonds, 1,
                            [derived |-> <<token>>,
                             err |-> "",
                             attributionMaps |->
                                 TokenAttributions(m, AtomObject(curr), token)])
                 last == outBonds[Len(outBonds)]
             IN  IF acc.err # "" THEN acc
                 ELSE IF Len(outBonds) = 0 \/ last.ringBond THEN acc
                 ELSE LET rest == FragmentToSelfies(m, TRUE, last, last.dst)
                      IN  [derived |-> acc.derived \o rest.derived,
                           err |-> rest.err,
                           attributionMaps |->
                               acc.attributionMaps \o rest.attributionMaps]

FragmentBonds(m, outBonds, i, acc) ==
    IF i > Len(outBonds) \/ acc.err # "" THEN acc
    ELSE LET bond == outBonds[i]
         IN  IF bond.ringBond
             THEN IF bond.src < bond.dst
                  THEN FragmentBonds(m, outBonds, i + 1, acc)
                  ELSE IF \/ ~HasDirBond(m, bond.dst, bond.src)
                          \/ RingLen(bond) - 1 < 0
                          \/ GetDirBond(m, bond.dst, bond.src).order # bond.order
                  THEN [acc EXCEPT !.err = "Error"]
                  ELSE LET revBond == GetDirBond(m, bond.dst, bond.src)
                           qAsSymbols ==
                               GetSelfiesFromIndex(RingLen(bond) - 1)
                           ringSymbol ==
                               "[" \o RingBondsToSelfies(revBond, bond) \o "Ring"
                                   \o IntToStr(Len(qAsSymbols)) \o "]"
                       IN  FragmentBonds(m, outBonds, i + 1,
                               [acc EXCEPT
                                   !.derived = @ \o <<ringSymbol>> \o qAsSymbols,
                                   !.attributionMaps =
                                       @ \o TokenAttributions(
                                               m, BondObjectOf(m, bond),
                                               ringSymbol)])
             ELSE IF i = Len(outBonds)
             THEN FragmentBonds(m, outBonds, i + 1, acc)
             ELSE LET branch == FragmentToSelfies(m, TRUE, bond, bond.dst)
                      qAsSymbols == GetSelfiesFromIndex(Len(branch.derived) - 1)
                      branchSymbol ==
                          "[" \o BondToSelfies(bond, FALSE) \o "Branch"
                              \o IntToStr(Len(qAsSymbols)) \o "]"
                  IN  IF branch.err # "" THEN [acc EXCEPT !.err = branch.err]
                      ELSE FragmentBonds(m, outBonds, i + 1,
                              [acc EXCEPT
                                  !.derived = @ \o <<branchSymbol>> \o qAsSymbols
                                                \o branch.derived,
                                  !.attributionMaps =
                                      @ \o branch.attributionMaps
                                        \o TokenAttributions(
                                               m, BondObjectOf(m, bond),
                                               branchSymbol)])

\* the loop of encoder lines 130-136: the fragments of the roots from the k-th
\* on, joined by '.'
RECURSIVE RootsToSelfies(_, _)
RootsToSelfies(m, k) ==
    IF k > Len(m.roots)
    THEN [derived |-> <<>>, err |-> "", attributionMaps |-> <<>>]
    ELSE LET first == FragmentToSelfies(m, FALSE,
                          NewDirectedBond(0, 0, 0, "", FALSE), m.roots[k])
             rest == RootsToSelfies(m, k + 1)
         IN  IF first.err # "" THEN first
             ELSE IF rest.err # "" THEN rest
             ELSE [derived |-> first.derived
                                \o (IF k < Len(m.roots) THEN <<".">> ELSE <<>>)
                                \o rest.derived,
                   err |-> "",
                   attributionMaps |->
                       first.attributionMaps \o rest.attributionMaps]

\* the regular expressions of encoder lines 67-76, on the tokens of a
\* non-empty SMILES
MatchesMalformedPattern(toks) ==
    \/ \A i \in 1..Len(toks) : toks[i] \in DigitTokenSet
    \/ toks[1] = "("
    \/ toks[Len(toks)] = ")"
    \/ \E i \in 1..Len(toks) :
          toks[i] = "(" /\ \A k \in (i + 1)..Len(toks) : toks[k] # ")"

\* the list of encoder lines 85-100, as far as the tokens of the model spell it
InvalidSmiles ==
    {"C1CCCCC", "C(F)(F)(F)(F)(F)F", "C=C1=CCCCCC1"}

\* what encoder leaves when it throws
EncoderThrew == [selfies |-> <<>>, err |-> "EncoderError", attribution |-> <<>>]

\* encoder(smiles, { attribute: true }): [selfies, err, attribution]
Encoder(table, toks) ==
    IF toks = <<>> THEN EncoderThrew
    ELSE IF MatchesMalformedPattern(toks) \/ JoinTokens(toks) \in InvalidSmiles
    THEN EncoderThrew
    ELSE LET parsed == SmilesToMol(toks)
             m == InvertChiralities(Kekulize(parsed[1]))
             out == RootsToSelfies(m, 1)
         IN  IF \/ parsed[2] # ""
                \/ ViolatesBondConstraints(table, Kekulize(parsed[1]))
                \/ out.err # ""
             THEN EncoderThrew
             ELSE [selfies |-> out.derived, err |-> "",
                   attribution |-> out.attributionMaps]

----------------------------------------------------------------------------
(* The inputs of the model *)

\* the symbols a drawn input takes from the semantic-robust alphabet
RobustSample ==
    {"[C]", "[=C]", "[#C]", "[F]", "[Ring1]", "[Branch1]"}

\* well-formed atom symbols outside the robust alphabet, and [nop]
WellFormedSample == {"[CH1]", "[OH3]", "[=F]", "[nop]"}

\* epsilon, symbols no table knows, a hanging bracket, a fragment separator
OtherSample == {"[epsilon]", "[Xx]", "[Branch4]", "[Ring4]", HANG, "."}

\* robust: the semantic-robust alphabet; wellformed: with every well-formed
\* atom symbol and [nop]; capable: the well-formed symbols whose atom has a
\* bonding capacity of at least 0 under the table; any: with everything else
AlphabetKinds == {"robust", "capable", "wellformed", "any"}

HasCapacity(table, sym) ==
    ProcessAtomSelfiesNoCache(sym) = NoOutput
        \/ BondingCapacity(table, ProcessAtomSelfiesNoCache(sym)[2]) >= 0

DrawSet(kind, table) ==
    LET robust == GetSemanticRobustAlphabet(table) \cap RobustSample
    IN  CASE kind = "robust" -> robust
          [] kind = "capable" ->
                {sym \in robust \cup WellFormedSample : HasCapacity(table, sym)}
          [] kind = "wellformed" -> robust \cup WellFormedSample
          [] OTHER -> robust \cup WellFormedSample \cup OtherSample

\* the value of selfies for an input that is drawn while it is read
DRAWN == <<"...">>

\* inputs given in full: the examples of the README and the tests
GivenInputs ==
    { <<>>,
      <<"[nop]">>,
      <<"[C]", "[#C]">>,
      <<"[C]", "[=C]", "[C]", "[=C]", "[C]", "[=C]", "[Ring1]", "[=Branch1]">>,
      <<"[C]", "[Branch1]", "[C">>,
      <<"[C]", ".", "[O]">>,
      <<"[C]", "[N]", "[C]", "[Branch1]", "[C]", "[P]", "[C]", "[C]", "[Ring1]",
        "[=Branch1]">>,
      <<"[O]", "[=C]", "[O]", "[C]", "[C]", "[C]", "[C]", "[O]", "[N]", "[Branch2_3">> }

\* the tokens of the SMILES that are enumerated, and how many of them
SmilesTokens == {"C", "O", "=", "(", ")", "1", "."}
MaxSmilesTokens == 3

RECURSIVE TokenStrings(_, _)
TokenStrings(tokens, n) ==
    IF n = 0 THEN {<<>>}
    ELSE LET shorter == TokenStrings(tokens, n - 1)
         IN  shorter \cup {Append(t, x) : t \in shorter, x \in tokens}

\* SMILES given in full: the examples of the README and the tests
GivenSmiles ==
    { <<"c", "1", "c", "c", "c", "c", "c", "1">>,
      <<"C", "1", "=", "C", "C", "=", "C", "C", "=", "C", "1">>,
      <<"C", "1", "C", "C", "1">>,
      <<"C", "C", "(", "C", ")", "C">>,
      <<"C", "(", "F", ")", "(", "F", ")", "F">>,
      <<"O", "=", "C", "=", "O">>,
      <<"[OH3]">>,
      <<"C", "[C@@H]", "(", "F", ")", "O">>,
      <<"C", "[C">>,
      <<"C", "(", "C", "(", "C", ")", "C">>,
      <<"C", "1", "C", "C">>,
      <<"C", "=", "[CH3]">> }

SmilesInputs == GivenSmiles \cup TokenStrings(SmilesTokens, MaxSmilesTokens)

----------------------------------------------------------------------------
(* bond-constraints as process-wide state: the installed table, the presets *)
(* and the two caches.  A mapping is an object: `objects` maps a reference  *)
(* to the entries of the mapping it names, so a write through one name of   *)
(* an object is seen through every other name of it, and not by a copy.     *)

\* most mappings the caller holds at a time
MaxHeld == 1
\* most mappings alive at a time: the three presets, the installed table, the
\* mappings the caller holds, and the one a call is creating
MaxObjects == MaxHeld + 5
\* most writes the caller makes to the mappings it holds
MaxEdits == 1

\* a number that is not an integer, such as 1.5
FRACTION == 999998

EmptyTable == <<>>

OctetRuleConstraints ==
    [k \in DOMAIN DEFAULT_CONSTRAINTS |->
        CASE k = "S" -> 2 [] k = "S+1" -> 3 [] k = "S-1" -> 1
          [] k = "P" -> 3 [] k = "P+1" -> 4 [] k = "P-1" -> 2
          [] OTHER -> DEFAULT_CONSTRAINTS[k]]

HypervalentConstraints ==
    [k \in DOMAIN DEFAULT_CONSTRAINTS |->
        CASE k \in {"Cl", "Br", "I"} -> 7
          [] k = "N" -> 5
          [] OTHER -> DEFAULT_CONSTRAINTS[k]]

\* PRESET_CONSTRAINTS: the own properties of the object, each a reference
PRESET_CONSTRAINTS == [default |-> 1, octet_rule |-> 2, hypervalent |-> 3]

PresetRefs == {PRESET_CONSTRAINTS[n] : n \in DOMAIN PRESET_CONSTRAINTS}

\* the properties an object literal inherits from Object.prototype; none of
\* them has an enumerable property of its own
ObjectPrototypeProperties ==
    {"constructor", "toString", "toLocaleString", "valueOf", "hasOwnProperty",
     "isPrototypeOf", "propertyIsEnumerable", "__proto__"}

\* name in PRESET_CONSTRAINTS
InPresetConstraints(name) ==
    name \in DOMAIN PRESET_CONSTRAINTS \/ name \in ObjectPrototypeProperties

\* the state of the module when it is loaded (lines 353-370)
LoadedConstraints ==
    [objects |-> (1 :> DEFAULT_CONSTRAINTS) @@ (2 :> OctetRuleConstraints)
                    @@ (3 :> HypervalentConstraints)
                    @@ (4 :> DEFAULT_CONSTRAINTS),
     currentConstraints |-> 4,
     semanticRobustAlphabetCache |-> <<>>,
     bondingCapacityCache |-> EmptyTable]

\* the installed table
Installed(k) == k.objects[k.currentConstraints]

HasRoom(objs) == \E r \in 1..MaxObjects : r \notin DOMAIN objs

\* the reference of the next object created
NewRef(objs) ==
    CHOOSE r \in 1..MaxObjects :
        r \notin DOMAIN objs /\ \A q \in 1..(r - 1) : q \in DOMAIN objs

\* what a call leaves: the module state, whether it threw, what it returned
Returned(k, ret) == [k |-> k, threw |-> FALSE, ret |-> ret]
Threw(k) == [k |-> k, threw |-> TRUE, ret |-> Null]

\* { ...PRESET_CONSTRAINTS[name] }: the own enumerable properties
SpreadPreset(k, name) ==
    IF name \in DOMAIN PRESET_CONSTRAINTS
    THEN k.objects[PRESET_CONSTRAINTS[name]]
    ELSE EmptyTable

\* getPresetConstraints
GetPresetConstraints(k, name) ==
    IF ~InPresetConstraints(name) THEN Threw(k)
    ELSE LET ref == NewRef(k.objects)
         IN  Returned([k EXCEPT !.objects = (ref :> SpreadPreset(k, name)) @@ @],
                      ref)

\* getSemanticConstraints answering with the default preset
GetSemanticConstraintsOfDefault(k) ==
    LET ref == NewRef(k.objects)
    IN  Returned([k EXCEPT !.objects =
                     (ref :> k.objects[PRESET_CONSTRAINTS["default"]]) @@ @],
                 ref)

\* getSemanticConstraints
GetSemanticConstraints(k) ==
    LET ref == NewRef(k.objects)
    IN  Returned([k EXCEPT !.objects = (ref :> Installed(k)) @@ @], ref)

\* the characters of the keys a mapping may have
ElementForms ==
    {<<"H">>, <<"F">>, <<"C", "l">>, <<"B", "r">>, <<"I">>, <<"B">>, <<"O">>,
     <<"N">>, <<"C">>, <<"P">>, <<"S">>}

ChargeForms == {<<>>, <<"+", "1">>, <<"-", "1">>}

OtherKeyForms ==
    {<<"?">>, <<"X", "x">>, <<"C", "+">>, <<"C", "1">>, <<"+", "1">>,
     <<"C", "+", "-", "1">>, <<"N", "+", "0", "2">>, <<"O", "-", "x">>}

KeyForms == {e \o c : e \in ElementForms, c \in ChargeForms} \cup OtherKeyForms

KEY_CHARS == [key \in {JoinTokens(f) : f \in KeyForms} |->
                 CHOOSE f \in KeyForms : JoinTokens(f) = key]

\* chars.indexOf(c)
IndexOf(chars, c) ==
    IF \E i \in 1..Len(chars) : chars[i] = c
    THEN (CHOOSE i \in 1..Len(chars) :
             chars[i] = c /\ \A q \in 1..(i - 1) : chars[q] # c) - 1
    ELSE 0 - 1

\* /^\d+$/.test(chars)
IsDigits(chars) ==
    Len(chars) > 0 /\ \A i \in 1..Len(chars) : chars[i] \in DigitTokenSet

\* lines 410-421: valid
IsValidKey(key) ==
    LET chars == KEY_CHARS[key]
        j == Max2(IndexOf(chars, "+"), IndexOf(chars, "-"))
    IN  IF key = "?" THEN TRUE
        ELSE IF j = 0 - 1 THEN key \in ELEMENTS
        ELSE /\ JoinTokens(SubSeq(chars, 1, j)) \in ELEMENTS
             /\ IsDigits(SubSeq(chars, j + 2, Len(chars)))

\* Number.isInteger
IsInteger(value) == value # FRACTION

\* lines 405-430: the mapping passes every test
IsAccepted(table) ==
    /\ "?" \in DOMAIN table
    /\ \A key \in DOMAIN table :
           IsValidKey(key) /\ IsInteger(table[key]) /\ table[key] >= 0

\* clearCaches that leaves the capacity memo as it is
ClearCachesKeepsMemo(k) ==
    [k EXCEPT !.semanticRobustAlphabetCache = <<>>]

\* clearCaches; the grammar caches are rebuilt as they were
ClearCaches(k) ==
    [k EXCEPT !.semanticRobustAlphabetCache = <<>>,
              !.bondingCapacityCache = EmptyTable]

\* the argument of setSemanticConstraints: a string, a mapping by reference,
\* or something else
StringArg(name) == [kind |-> "string", name |-> name, ref |-> Null]
ObjectArg(ref) == [kind |-> "object", name |-> "", ref |-> ref]
OtherArg == [kind |-> "other", name |-> "", ref |-> Null]

\* setSemanticConstraints installing the mapping it is given, not a copy
SetSemanticConstraintsNoCopy(k, arg) ==
    IF arg.kind = "string"
    THEN LET got == GetPresetConstraints(k, arg.name)
         IN  IF got.threw THEN Threw(k)
             ELSE Returned(ClearCaches(
                      [got.k EXCEPT !.currentConstraints = got.ret]), Null)
    ELSE IF arg.kind = "object"
    THEN IF ~IsAccepted(k.objects[arg.ref]) THEN Threw(k)
         ELSE Returned(ClearCaches(
                  [k EXCEPT !.currentConstraints = arg.ref]), Null)
    ELSE Threw(k)

\* setSemanticConstraints
SetSemanticConstraints(k, arg) ==
    IF arg.kind = "string"
    THEN LET got == GetPresetConstraints(k, arg.name)
         IN  IF got.threw THEN Threw(k)
             ELSE Returned(ClearCaches(
                      [got.k EXCEPT !.currentConstraints = got.ret]), Null)
    ELSE IF arg.kind = "object"
    THEN IF ~IsAccepted(k.objects[arg.ref]) THEN Threw(k)
         ELSE LET ref == NewRef(k.objects)
              IN  Returned(ClearCaches(
                      [k EXCEPT !.objects = (ref :> k.objects[arg.ref]) @@ @,
                                !.currentConstraints = ref]), Null)
    ELSE Threw(k)

\* getSemanticRobustAlphabet
GetSemanticRobustAlphabetCall(k) ==
    IF k.semanticRobustAlphabetCache # <<>>
    THEN Returned(k, k.semanticRobustAlphabetCache[1])
    ELSE LET alphabetSubset == GetSemanticRobustAlphabet(Installed(k))
         IN  Returned([k EXCEPT !.semanticRobustAlphabetCache =
                                    <<alphabetSubset>>],
                      alphabetSubset)

\* getBondingCapacity
GetBondingCapacityCall(k, element, charge) ==
    LET key == element \o ChargeSuffix(charge)
        capacity == TableEntry(Installed(k), key)
    IN  IF key \in DOMAIN k.bondingCapacityCache
        THEN Returned(k, k.bondingCapacityCache[key])
        ELSE Returned([k EXCEPT !.bondingCapacityCache = (key :> capacity) @@ @],
                      capacity)

\* the capacities a codec call is answered with: a key that is memoised
\* gets the memoised value, any other key the entry of the installed table
EffectiveTable(k) == k.bondingCapacityCache @@ Installed(k)

\* the key getBondingCapacity makes for an atom
AtomKey(atom) == atom.element \o ChargeSuffix(atom.charge)

\* decoder(selfies) with the keys it asks getBondingCapacity for: one per
\* symbol that processAtomSymbol makes an atom of (grammar-rules.ts line 31)
RECURSIVE DecoderLookups(_, _, _)
DecoderLookups(table, d, keys) ==
    IF d.pc \in {"done", "error"}
    THEN [result |-> d.result, err |-> d.err, keys |-> keys]
    ELSE LET asked ==
                 {AtomKey(ProcessAtomSelfiesNoCache(r.tok)[2]) :
                     r \in {x \in LoopReads(d) :
                              /\ x.tok \notin SymbolsWithBranch
                              /\ x.tok \notin SymbolsWithRing
                              /\ x.tok \notin SymbolsWithEps
                              /\ ProcessAtomSelfiesNoCache(x.tok) # NoOutput}}
         IN  DecoderLookups(table,
                            CHOOSE e \in DecoderSteps(table, d) : TRUE,
                            keys \cup asked)

\* the keys encoder asks getBondingCapacity for: checkBondConstraints asks
\* for every atom of the parsed graph
EncoderLookups(toks) ==
    IF \/ toks = <<>>
       \/ MatchesMalformedPattern(toks)
       \/ JoinTokens(toks) \in InvalidSmiles
       \/ SmilesToMol(toks)[2] # ""
    THEN {}
    ELSE {AtomKey(a) : a \in SeqToSet(SmilesToMol(toks)[1].atoms)}

\* the getBondingCapacity calls memoising what the default table gives
AfterLookupsFromDefault(k, keys) ==
    [k EXCEPT !.bondingCapacityCache =
        [key \in keys \ DOMAIN @ |-> TableEntry(DEFAULT_CONSTRAINTS, key)] @@ @]

\* the module state after the getBondingCapacity calls for these keys
AfterLookups(k, keys) ==
    [k EXCEPT !.bondingCapacityCache =
        [key \in keys \ DOMAIN @ |-> TableEntry(Installed(k), key)] @@ @]

----------------------------------------------------------------------------
(* The state machine: decoder(selfies) and encoder(smiles) *)

\* the decoder in the current state: an input given in full is decoded with
\* { attribute: true }, as the test 'decoder attribution' does, and one that
\* is drawn without options, as the test 'random selfies decoder' does
Cur ==
    [pc |-> pc, stream |-> stream, frames |-> frames, mol |-> mol,
     rings |-> rings, ringPos |-> ringPos, ringsMade |-> ringsMade,
     symbol |-> symbolRead, indexSymbols |-> indexRead, result |-> result,
     err |-> err, attributionMap |-> attributionMap,
     attribute |-> alphabet = "given"]

Install(d) ==
    /\ pc' = d.pc
    /\ stream' = d.stream
    /\ frames' = Terminated(d.frames)
    /\ mol' = d.mol
    /\ rings' = d.rings
    /\ ringPos' = d.ringPos
    /\ ringsMade' = d.ringsMade
    /\ symbolRead' = d.symbol
    /\ indexRead' = d.indexSymbols
    /\ result' = d.result
    /\ err' = d.err
    /\ attributionMap' = d.attributionMap
    /\ UNCHANGED <<flow, smiles, encoded, selfies, constraints, alphabet>>
    /\ UNCHANGED <<apiVars, pureVars>>

\* nothing encoded yet
NotEncoded == [selfies |-> <<>>, err |-> "", attribution |-> <<>>]

\* decoder(selfies) is called on a given or drawn input, and encoder on the
\* SMILES it returns, as the test 'random selfies decoder' does
InitDecodeEncode ==
    /\ flow = "decode-encode"
    /\ smiles = <<>>
    /\ \/ /\ selfies \in GivenInputs
          /\ alphabet = "given"
          /\ stream = FixedStream(selfies)
       \/ /\ selfies = DRAWN
          /\ alphabet \in AlphabetKinds
          /\ stream = DrawnStream(DrawSet(alphabet, constraints),
                                  IF alphabet = "robust" THEN MaxSymbols
                                  ELSE MaxOtherSymbols)
    /\ pc = "start"

\* encoder(smiles) is called on a given SMILES, and decoder on the SELFIES it
\* returns
InitEncodeDecode ==
    /\ flow = "encode-decode"
    /\ smiles \in SmilesInputs
    /\ selfies = <<>>
    /\ alphabet = "given"
    /\ stream = FixedStream(<<>>)
    /\ pc = "encode"

\* the calls of the bond-constraints API are not made: the installed table
\* is the variable constraints
ConstraintsNotCalled ==
    /\ objects = EmptyTable
    /\ currentConstraints = Null
    /\ semanticRobustAlphabetCache = <<>>
    /\ bondingCapacityCache = EmptyTable
    /\ held = {}
    /\ edits = 0
    /\ lastSet = [kind |-> "none", name |-> "", table |-> <<>>]
    /\ call = [op |-> "", name |-> "", ref |-> Null, table |-> <<>>,
               key |-> "", threw |-> FALSE, capacity |-> UNDEFINED,
               symbols |-> {}, tokens |-> <<>>, err |-> ""]

\* no function is applied on its own
NothingApplied ==
    /\ subject = ""
    /\ given = <<>>
    /\ outputs = <<>>

Init ==
    /\ constraints \in Tables
    /\ InitDecodeEncode \/ InitEncodeDecode
    /\ encoded = NotEncoded
    /\ frames = <<>>
    /\ mol = EmptyMol
    /\ rings = <<>>
    /\ ringPos = 0
    /\ ringsMade = <<>>
    /\ symbolRead = ""
    /\ indexRead = <<>>
    /\ result = <<>>
    /\ err = ""
    /\ attributionMap = <<>>
    /\ ConstraintsNotCalled
    /\ NothingApplied

DoDecoderStart == \E d \in DecoderStart(Cur) : Install(d)
DoLoopReadThrows == \E d \in LoopReadThrows(Cur) : Install(d)
DoInvalidSymbol == \E d \in InvalidSymbol(constraints, Cur) : Install(d)
DoBranchSkipped == \E d \in BranchSkipped(Cur) : Install(d)
DoBranchTaken == \E d \in BranchTaken(Cur) : Install(d)
DoRingSkipped == \E d \in RingSkipped(Cur) : Install(d)
DoRingTaken == \E d \in RingTaken(Cur) : Install(d)
DoIndexReadThrows == \E d \in IndexReadThrows(Cur) : Install(d)
DoEpsilon == \E d \in Epsilon(Cur) : Install(d)
DoAtomDerived == \E d \in AtomDerived(constraints, Cur) : Install(d)
DoBranchReturn == \E d \in BranchReturn(Cur) : Install(d)
DoFragmentDone == \E d \in FragmentDone(Cur) : Install(d)
DoRingsSkipped == \E d \in RingsSkipped(Cur) : Install(d)
DoRingStep == \E d \in RingStep(constraints, Cur) : Install(d)
DoRingsFormed == \E d \in RingsFormed(Cur) : Install(d)
DoSerialize == \E d \in Serialize(Cur) : Install(d)

\* encoder is called on the SMILES that decoder returned
DoReEncode ==
    /\ flow = "decode-encode"
    /\ pc = "done"
    /\ smiles' = result
    /\ encoded' = Encoder(constraints, result)
    /\ pc' = "reencoded"
    /\ UNCHANGED <<flow, selfies, constraints, alphabet, stream, frames, mol,
                   rings, ringPos, ringsMade, symbolRead, indexRead, result,
                   err, attributionMap>>
    /\ UNCHANGED <<apiVars, pureVars>>

\* encoder is called on the given SMILES; decoder is called on what it
\* returns, if it returns
DoEncode ==
    /\ pc = "encode"
    /\ encoded' = Encoder(constraints, smiles)
    /\ IF encoded'.err # ""
       THEN /\ pc' = "rejected"
            /\ UNCHANGED <<selfies, stream>>
       ELSE /\ pc' = "start"
            /\ selfies' = encoded'.selfies
            /\ stream' = FixedStream(encoded'.selfies)
    /\ UNCHANGED <<flow, smiles, constraints, alphabet, frames, mol, rings,
                   ringPos, ringsMade, symbolRead, indexRead, result, err,
                   attributionMap>>
    /\ UNCHANGED <<apiVars, pureVars>>

Next ==
    \/ DoDecoderStart
    \/ DoLoopReadThrows
    \/ DoInvalidSymbol
    \/ DoBranchSkipped
    \/ DoBranchTaken
    \/ DoRingSkipped
    \/ DoRingTaken
    \/ DoIndexReadThrows
    \/ DoEpsilon
    \/ DoAtomDerived
    \/ DoBranchReturn
    \/ DoFragmentDone
    \/ DoRingsSkipped
    \/ DoRingStep
    \/ DoRingsFormed
    \/ DoSerialize
    \/ DoReEncode
    \/ DoEncode

Spec == Init /\ [][Next]_vars

----------------------------------------------------------------------------
(* The state machine of the bond-constraints API: a caller makes the calls  *)
(* of the module in any order, keeps the mappings it is handed, writes to   *)
(* them, and passes them back.                                              *)

\* the strings given as a preset name
PresetNames == {"default", "octet_rule", "no_such_preset", "toString"}

\* the mapping literals setSemanticConstraints is called with
GivenMappings ==
    {EmptyTable,
     ("?" :> 2),
     ("?" :> 8) @@ ("N+02" :> 4),
     ("?" :> 8) @@ ("Xx" :> 1),
     ("?" :> 8) @@ ("C1" :> 1),
     ("?" :> 8) @@ ("C+" :> 1),
     ("?" :> 8) @@ ("+1" :> 1),
     ("?" :> 8) @@ ("C+-1" :> 1),
     ("?" :> 8) @@ ("O-x" :> 1)}

\* the entries the caller writes into a mapping it holds
WriteKeys == {"C"}
WriteValues == {1, 0 - 1, FRACTION}
\* the entries the caller deletes
DeleteKeys == {"?"}

\* the arguments getBondingCapacity is called with
CapacityQueries == {<<"C", 0>>, <<"N", 1>>}

\* the inputs of the codec calls
ApiSelfies == {<<"[C]", "[#C]">>, <<"[N+1]", "[#C]">>}
ApiSmiles == {<<"C", "#", "C">>}

NoSet == [kind |-> "none", name |-> "", table |-> EmptyTable]

NoCall ==
    [op |-> "", name |-> "", ref |-> Null, table |-> EmptyTable, key |-> "",
     threw |-> FALSE, capacity |-> UNDEFINED, symbols |-> {}, tokens |-> <<>>,
     err |-> ""]

\* the module state
Mod ==
    [objects |-> objects, currentConstraints |-> currentConstraints,
     semanticRobustAlphabetCache |-> semanticRobustAlphabetCache,
     bondingCapacityCache |-> bondingCapacityCache]

\* the module state after the step
ModAfter ==
    [objects |-> objects', currentConstraints |-> currentConstraints',
     semanticRobustAlphabetCache |-> semanticRobustAlphabetCache',
     bondingCapacityCache |-> bondingCapacityCache']

\* the objects something still refers to
Alive(k, refs) ==
    [r \in DOMAIN k.objects
            \cap (refs \cup PresetRefs \cup {k.currentConstraints}) |->
        k.objects[r]]

InstallMod(k, refs) ==
    /\ objects' = Alive(k, refs)
    /\ currentConstraints' = k.currentConstraints
    /\ semanticRobustAlphabetCache' = k.semanticRobustAlphabetCache
    /\ bondingCapacityCache' = k.bondingCapacityCache
    /\ held' = refs
    /\ UNCHANGED <<codecVars, pureVars>>

\* neither decoder nor encoder is running
CodecIdle ==
    /\ smiles = <<>>
    /\ encoded = NotEncoded
    /\ selfies = <<>>
    /\ pc = "idle"
    /\ constraints = DEFAULT_CONSTRAINTS
    /\ alphabet = "given"
    /\ stream = FixedStream(<<>>)
    /\ frames = <<>>
    /\ mol = EmptyMol
    /\ rings = <<>>
    /\ ringPos = 0
    /\ ringsMade = <<>>
    /\ symbolRead = ""
    /\ indexRead = <<>>
    /\ result = <<>>
    /\ err = ""
    /\ attributionMap = <<>>

InitConstraints ==
    /\ flow = "constraints"
    /\ CodecIdle
    /\ objects = LoadedConstraints.objects
    /\ currentConstraints = LoadedConstraints.currentConstraints
    /\ semanticRobustAlphabetCache = LoadedConstraints.semanticRobustAlphabetCache
    /\ bondingCapacityCache = LoadedConstraints.bondingCapacityCache
    /\ held = {}
    /\ edits = 0
    /\ lastSet = NoSet
    /\ call = NoCall
    /\ NothingApplied

CallGetPresetConstraints ==
    \E name \in PresetNames :
        /\ HasRoom(objects)
        /\ Cardinality(held) < MaxHeld
        /\ \E out \in {GetPresetConstraints(Mod, name)} :
               /\ InstallMod(out.k, IF out.threw THEN held
                                    ELSE held \cup {out.ret})
               /\ call' = [NoCall EXCEPT !.op = "getPresetConstraints",
                                         !.name = name,
                                         !.ref = out.ret,
                                         !.threw = out.threw]
        /\ UNCHANGED <<edits, lastSet>>

CallGetSemanticConstraints ==
    /\ HasRoom(objects)
    /\ Cardinality(held) < MaxHeld
    /\ \E out \in {GetSemanticConstraints(Mod)} :
           /\ InstallMod(out.k, held \cup {out.ret})
           /\ call' = [NoCall EXCEPT !.op = "getSemanticConstraints",
                                     !.ref = out.ret]
    /\ UNCHANGED <<edits, lastSet>>

CallSetSemanticConstraints ==
    \E arg \in {StringArg(n) : n \in PresetNames}
                \cup {ObjectArg(r) : r \in held} \cup {OtherArg} :
        /\ HasRoom(objects)
        /\ \E out \in {SetSemanticConstraints(Mod, arg)} :
               /\ InstallMod(out.k, held)
               /\ call' = [NoCall EXCEPT !.op = "setSemanticConstraints",
                                         !.name = arg.kind \o ":" \o arg.name,
                                         !.ref = arg.ref,
                                         !.table = IF arg.kind = "object"
                                                   THEN objects[arg.ref]
                                                   ELSE EmptyTable,
                                         !.threw = out.threw]
               /\ lastSet' =
                    IF out.threw THEN lastSet
                    ELSE IF arg.kind = "object"
                    THEN [kind |-> "mapping", name |-> "",
                          table |-> objects[arg.ref]]
                    ELSE [kind |-> "preset", name |-> arg.name,
                          table |-> EmptyTable]
        /\ UNCHANGED edits

CallGetSemanticRobustAlphabet ==
    /\ \E out \in {GetSemanticRobustAlphabetCall(Mod)} :
           /\ InstallMod(out.k, held)
           /\ call' = [NoCall EXCEPT !.op = "getSemanticRobustAlphabet",
                                     !.symbols = out.ret]
    /\ UNCHANGED <<edits, lastSet>>

CallGetBondingCapacity ==
    \E q \in CapacityQueries :
        /\ \E out \in {GetBondingCapacityCall(Mod, q[1], q[2])} :
               /\ InstallMod(out.k, held)
               /\ call' = [NoCall EXCEPT !.op = "getBondingCapacity",
                                         !.key = q[1] \o ChargeSuffix(q[2]),
                                         !.capacity = out.ret]
        /\ UNCHANGED <<edits, lastSet>>

\* decoder(selfies) under the installed table; a table without "?" answers
\* undefined for the capacities, and such a call is left out
CallDecoder ==
    \E toks \in ApiSelfies :
        /\ "?" \in DOMAIN Installed(Mod)
        /\ \E out \in {DecoderLookups(EffectiveTable(Mod),
                                      NewDecoder(FixedStream(toks)), {})} :
               /\ \E k \in {AfterLookups(Mod, out.keys)} : InstallMod(k, held)
               /\ call' = [NoCall EXCEPT !.op = "decoder",
                                         !.name = JoinTokens(toks),
                                         !.tokens = out.result,
                                         !.err = out.err]
        /\ UNCHANGED <<edits, lastSet>>

\* encoder(smiles) under the installed table
CallEncoder ==
    \E toks \in ApiSmiles :
        /\ "?" \in DOMAIN Installed(Mod)
        /\ \E out \in {Encoder(EffectiveTable(Mod), toks)},
              keys \in {EncoderLookups(toks)} :
               /\ \E k \in {AfterLookups(Mod, keys)} : InstallMod(k, held)
               /\ call' = [NoCall EXCEPT !.op = "encoder",
                                         !.name = JoinTokens(toks),
                                         !.tokens = out.selfies,
                                         !.err = out.err]
        /\ UNCHANGED <<edits, lastSet>>

\* setSemanticConstraints is called with a mapping literal, which the caller
\* does not keep
CallSetWithLiteral ==
    \E table \in GivenMappings :
        /\ Cardinality(DOMAIN objects) + 2 <= MaxObjects
        /\ \E out \in {SetSemanticConstraints(
                           [Mod EXCEPT !.objects = (NewRef(objects) :> table) @@ @],
                           ObjectArg(NewRef(objects)))} :
               /\ InstallMod(out.k, held)
               /\ call' = [NoCall EXCEPT !.op = "setSemanticConstraints",
                                         !.name = "object:",
                                         !.table = table,
                                         !.threw = out.threw]
               /\ lastSet' =
                    IF out.threw THEN lastSet
                    ELSE [kind |-> "mapping", name |-> "", table |-> table]
        /\ UNCHANGED edits

\* the caller assigns mapping[key] = value on a mapping it holds
WriteEntry ==
    \E ref \in held, key \in WriteKeys, value \in WriteValues :
        /\ edits < MaxEdits
        /\ edits' = edits + 1
        /\ InstallMod([Mod EXCEPT !.objects[ref] = (key :> value) @@ @], held)
        /\ call' = [NoCall EXCEPT !.op = "write", !.ref = ref, !.key = key,
                                  !.capacity = value]
        /\ UNCHANGED lastSet

\* the caller deletes mapping[key] on a mapping it holds
DeleteEntry ==
    \E ref \in held, key \in DeleteKeys :
        /\ edits < MaxEdits
        /\ key \in DOMAIN objects[ref]
        /\ edits' = edits + 1
        /\ InstallMod([Mod EXCEPT !.objects[ref] =
                          [x \in DOMAIN @ \ {key} |-> @[x]]], held)
        /\ call' = [NoCall EXCEPT !.op = "delete", !.ref = ref, !.key = key]
        /\ UNCHANGED lastSet

\* the caller lets go of a mapping
Forget ==
    \E ref \in held :
        /\ InstallMod(Mod, held \ {ref})
        /\ call' = [NoCall EXCEPT !.op = "forget", !.ref = ref]
        /\ UNCHANGED <<edits, lastSet>>

NextConstraints ==
    \/ CallGetPresetConstraints
    \/ CallGetSemanticConstraints
    \/ CallSetSemanticConstraints
    \/ CallGetSemanticRobustAlphabet
    \/ CallGetBondingCapacity
    \/ CallDecoder
    \/ CallEncoder
    \/ CallSetWithLiteral
    \/ WriteEntry
    \/ DeleteEntry
    \/ Forget

SpecConstraints == InitConstraints /\ [][NextConstraints]_vars

----------------------------------------------------------------------------
(* Properties of the decoder *)

\* the sum of the orders of the bonds that meet atom idx, each bond of the
\* graph counted once, in half bonds
RECURSIVE IncidentOrderSum(_, _, _)
IncidentOrderSum(m, idx, k) ==
    IF k = 0 THEN 0
    ELSE LET b == m.bonds[k]
         IN  IncidentOrderSum(m, idx, k - 1)
                + (IF /\ b.src < b.dst
                      /\ (b.src = idx \/ b.dst = idx)
                      /\ <<b.src, b.dst>> \in DOMAIN m.bondDict
                      /\ m.bondDict[<<b.src, b.dst>>] = k
                   THEN b.order ELSE 0)

\* C1: in every state of a decoder call - after every atom, branch and
\* ring-resolution step and in the final graph - the bond count of every atom,
\* and the sum of the orders of its bonds, is at most its bonding capacity:
\* the table value for its element and charge minus its explicit hydrogens.
BondCountWithinCapacity ==
    \A i \in 1..Len(mol.atoms) :
        /\ mol.bondCounts[i] <= Ord(BondingCapacity(constraints, mol.atoms[i]))
        /\ IncidentOrderSum(mol, i - 1, Len(mol.bonds))
                <= Ord(BondingCapacity(constraints, mol.atoms[i]))

\* a finished call whose graph has a ring bond and an atom that is full
C1Witness ==
    /\ pc = "done"
    /\ \E k \in 1..Len(mol.bonds) : mol.bonds[k].ringBond
    /\ \E i \in 1..Len(mol.atoms) :
          /\ Len(mol.adjList[i]) > 1
          /\ mol.bondCounts[i] = Ord(BondingCapacity(constraints, mol.atoms[i]))

WithNopAt(s, i) == InsertAt(s, i, "[nop]")

\* s with [nop] inserted at every symbol boundary
RECURSIVE WithNopsEverywhere(_)
WithNopsEverywhere(s) ==
    IF s = <<>> THEN <<"[nop]">>
    ELSE <<"[nop]", Head(s)>> \o WithNopsEverywhere(Tail(s))

\* C3: for every SELFIES string s given in full - the empty string and
\* strings with '.' included - decoder returns for s with [nop] symbols
\* inserted at any symbol boundary what it returns for s.
NopInvariance ==
    (/\ flow = "decode-encode"
     /\ alphabet = "given"
     /\ \A i \in 1..Len(selfies) : selfies[i] # HANG
     /\ pc \in {"done", "error"}) =>
        /\ \A i \in 0..Len(selfies) :
              Decoder(constraints, WithNopAt(selfies, i)) = <<result, err>>
        /\ Decoder(constraints, WithNopsEverywhere(selfies)) = <<result, err>>

\* C4: for every sequence r of symbols of the semantic-robust alphabet,
\* encoder accepts the SMILES that decoder(r) returns.
ReEncodeAccepts ==
    (flow = "decode-encode" /\ alphabet = "robust" /\ pc = "reencoded") =>
        encoded.err = ""

\* the bonds of a graph as unordered pairs with their order
Edges(m) ==
    {[a |-> Min2(k[1], k[2]), b |-> Max2(k[1], k[2]),
      order |-> m.bonds[m.bondDict[k]].order] : k \in DOMAIN m.bondDict}

\* the graphs have the same atoms (element, charge) and the same bonds with
\* the same orders, up to the numbering of the atoms
Isomorphic(g, h) ==
    /\ Len(g.atoms) = Len(h.atoms)
    /\ \E f \in [1..Len(g.atoms) -> 1..Len(g.atoms)] :
          /\ \A i, j \in 1..Len(g.atoms) : f[i] = f[j] => i = j
          /\ \A i \in 1..Len(g.atoms) :
                /\ g.atoms[i].element = h.atoms[f[i]].element
                /\ g.atoms[i].charge = h.atoms[f[i]].charge
          /\ {[a |-> Min2(f[e.a + 1], f[e.b + 1]) - 1,
               b |-> Max2(f[e.a + 1], f[e.b + 1]) - 1,
               order |-> e.order] : e \in Edges(g)} = Edges(h)

\* C5: for every SMILES that encoder accepts, decoder(encoder(smiles)) is a
\* SMILES whose parsed graph has the atoms and bonds of the parsed graph of
\* smiles.
RoundTripIsomorphic ==
    (flow = "encode-decode" /\ pc \in {"done", "error"}) =>
        /\ err = ""
        /\ SmilesToMol(result)[2] = ""
        /\ Isomorphic(SmilesToMol(smiles)[1], SmilesToMol(result)[1])

BenzeneSelfies ==
    <<"[C]", "[=C]", "[C]", "[=C]", "[C]", "[=C]", "[Ring1]", "[=Branch1]">>

\* C7: encoder("c1ccccc1") returns [C][=C][C][=C][C][=C][Ring1][=Branch1].
BenzeneEncodes ==
    (/\ flow = "encode-decode"
     /\ smiles = <<"c", "1", "c", "c", "c", "c", "c", "1">>
     /\ pc # "encode") =>
        encoded.selfies = BenzeneSelfies /\ encoded.err = ""

\* C6: under the default constraints decoder returns "C1=CC=CC=C1" for
\* [C][=C][C][=C][C][=C][Ring1][=Branch1]: the ring symbol closes a ring to the
\* atom Q + 1 positions back, shown as a pair of ring-closure digits.
BenzeneDecodes ==
    (/\ selfies = BenzeneSelfies
     /\ constraints = DEFAULT_CONSTRAINTS
     /\ pc \in {"done", "error"})
        => (err = "" /\ JoinTokens(result) = "C1=CC=CC=C1")

\* C8: the bond the decoder adds between the previous atom and the atom of a
\* symbol [bX] has order min(b, state, capacity(X)), state being the state of
\* the frame before the symbol; so decoder("[C][#C]") is "C#C" under the
\* default table and "CC" under the table with C: 1.
ClampedBondOrder ==
    /\ [][(pc = "derive" /\ Len(mol'.bonds) = Len(mol.bonds) + 1) =>
            LET f == frames[Len(frames)]
                out == ProcessAtomSelfiesNoCache(symbolRead')
                b == mol'.bonds[Len(mol'.bonds)]
            IN  /\ b.order = Ord(Min3(out[1][1], f.state,
                                      BondingCapacity(constraints, out[2])))
                /\ b.src = f.prevAtom
                /\ b.dst = MolLength(mol)
                /\ ~b.ringBond]_vars
    /\ [](selfies = <<"[C]", "[#C]">> /\ pc \in {"done", "error"} =>
            /\ err = ""
            /\ JoinTokens(result) =
                  IF constraints = DEFAULT_CONSTRAINTS THEN "C#C" ELSE "CC")

\* decoder("[C][#C]") has returned "CC" under the table with C: 1
C8Witness ==
    /\ selfies = <<"[C]", "[#C]">>
    /\ constraints = CarbonOneConstraints
    /\ pc = "done"
    /\ JoinTokens(result) = "CC"
    /\ mol.bonds[1].order = Ord(1)

\* C9: every error that escapes decoder is a DecoderError, wherever the
\* hanging '[' is reached: at a derivation position, in the index symbols of a
\* taken Branch or Ring symbol, or inside a branch frame.
OnlyDecoderErrorEscapes ==
    err # "" => err = "DecoderError"

\* a bracketed symbol that is no valid atom, branch, ring or epsilon symbol
InvalidBracketed(table, sym) ==
    /\ sym \notin {"", END, HANG, "."}
    /\ IF sym \in SymbolsWithBranch THEN sym \notin DOMAIN PROCESS_BRANCH_CACHE
       ELSE IF sym \in SymbolsWithRing THEN sym \notin DOMAIN PROCESS_RING_CACHE
       ELSE IF sym \in SymbolsWithEps THEN FALSE
       ELSE \/ ProcessAtomSelfiesNoCache(sym) = NoOutput
            \/ BondingCapacity(table, ProcessAtomSelfiesNoCache(sym)[2]) < 0

\* the positional value of index symbols, an invalid symbol being digit 0
RECURSIVE PositionalValue(_)
PositionalValue(symbols) ==
    IF symbols = <<>> THEN 0
    ELSE LET last == symbols[Len(symbols)]
             digit == IF \E i \in 1..Len(INDEX_ALPHABET) : INDEX_ALPHABET[i] = last
                      THEN (CHOOSE i \in 1..Len(INDEX_ALPHABET) :
                                INDEX_ALPHABET[i] = last) - 1
                      ELSE 0
         IN  digit + Len(INDEX_ALPHABET)
                        * PositionalValue(SubSeq(symbols, 1, Len(symbols) - 1))

\* the number of index symbols that follow the branch or ring symbol sym
IndexLength(sym) ==
    IF sym \in DOMAIN PROCESS_BRANCH_CACHE THEN PROCESS_BRANCH_CACHE[sym][2]
    ELSE IF sym \in DOMAIN PROCESS_RING_CACHE THEN PROCESS_RING_CACHE[sym][2]
    ELSE 0

\* C10: an invalid bracketed symbol read at a derivation position makes
\* decoder raise DecoderError, and a DecoderError is raised only for such a
\* symbol or a hanging bracket; read as one of the index symbols of a taken
\* Branch or Ring symbol it raises nothing and counts as digit 0.
InvalidSymbolRaisesOnlyWhenDerived ==
    /\ InvalidBracketed(constraints, symbolRead) =>
            (pc = "error" /\ err = "DecoderError")
    /\ err = "DecoderError" =>
            (symbolRead = HANG \/ InvalidBracketed(constraints, symbolRead))
    /\ (/\ indexRead # <<>>
        /\ Len(indexRead) = IndexLength(symbolRead)
        /\ \E i \in 1..Len(indexRead) :
                InvalidBracketed(constraints, indexRead[i])) =>
            /\ err = ""
            /\ (symbolRead \in SymbolsWithBranch /\ Len(frames) > 1
                    /\ frames[Len(frames)].nDerived = 0) =>
                  frames[Len(frames)].maxDerive = PositionalValue(indexRead) + 1
            /\ (symbolRead \in SymbolsWithRing /\ pc = "derive"
                    /\ frames[Len(frames)].prevAtom >= 0) =>
                  rings[Len(rings)].left =
                      Max2(0, frames[Len(frames)].prevAtom
                                - (PositionalValue(indexRead) + 1))

\* an invalid symbol was read as the index of a taken branch, and the branch
\* frame runs
C10Witness ==
    /\ pc = "derive"
    /\ err = ""
    /\ symbolRead \in SymbolsWithBranch
    /\ Len(frames) > 1
    /\ \E i \in 1..Len(indexRead) : InvalidBracketed(constraints, indexRead[i])

----------------------------------------------------------------------------
(* Properties of the encoder *)

\* the number of '(' minus the number of ')' among the first n tokens
RECURSIVE ParenDepth(_, _)
ParenDepth(toks, n) ==
    IF n = 0 THEN 0
    ELSE ParenDepth(toks, n - 1)
            + (IF toks[n] = "(" THEN 1 ELSE IF toks[n] = ")" THEN 0 - 1 ELSE 0)

\* an unmatched ')' at some position, or an unmatched '('
UnbalancedParens(toks) ==
    \/ \E n \in 1..Len(toks) : ParenDepth(toks, n) < 0
    \/ ParenDepth(toks, Len(toks)) # 0

\* a '[' that is never closed
UnclosedBracket(toks) == \E i \in 1..Len(toks) : toks[i] = HANG

\* a ring digit that follows an atom of its fragment and occurs there an odd
\* number of times: it is opened and never closed
UnclosedRing(toks) ==
    \E i \in 1..Len(toks) :
        /\ toks[i] \in DigitTokenSet
        /\ LET from == IF \E k \in 1..i : toks[k] = "."
                       THEN (CHOOSE k \in 1..i :
                                /\ toks[k] = "."
                                /\ \A l \in (k + 1)..i : toks[l] # ".") + 1
                       ELSE 1
               upto == IF \E k \in i..Len(toks) : toks[k] = "."
                       THEN (CHOOSE k \in i..Len(toks) :
                                /\ toks[k] = "."
                                /\ \A l \in i..(k - 1) : toks[l] # ".") - 1
                       ELSE Len(toks)
               atomAt(k) == toks[k] \notin
                                DigitTokenSet \cup BondTokens \cup {"(", ")", "."}
               first == CHOOSE k \in from..upto :
                            atomAt(k) /\ \A l \in from..(k - 1) : ~atomAt(l)
           IN  /\ \E k \in from..upto : atomAt(k)
               /\ Cardinality({k \in (first + 1)..upto : toks[k] = toks[i]}) % 2 = 1

\* C11: encoder raises EncoderError for every SMILES with unbalanced
\* parentheses, an unclosed '[' or a ring digit that is opened and never
\* closed, and no error other than an EncoderError escapes encoder.
EncoderRejectsUnbalanced ==
    (flow = "encode-decode" /\ pc # "encode") =>
        /\ encoded.err \in {"", "EncoderError"}
        /\ (UnbalancedParens(smiles) \/ UnclosedBracket(smiles)
                \/ UnclosedRing(smiles)) => encoded.err = "EncoderError"

\* C12: encoder raises EncoderError whenever, after parsing and kekulization,
\* the sum of the orders of the bonds of some atom exceeds its bonding
\* capacity - the table value for its element and charge minus its explicit
\* hydrogens - and returns no SELFIES string for such a molecule.
EncoderRejectsOverCapacity ==
    (/\ flow = "encode-decode"
     /\ pc # "encode"
     /\ SmilesToMol(smiles)[2] = ""
     /\ LET m == Kekulize(SmilesToMol(smiles)[1])
        IN  \E i \in 1..Len(m.atoms) :
                IncidentOrderSum(m, i - 1, Len(m.bonds))
                    > Ord(BondingCapacity(constraints, m.atoms[i]))) =>
        encoded.err = "EncoderError"

\* the strings moleculeBondToSmiles writes: the token of a bond entry of the
\* attribution map
BondStrings == {"", "=", "#", "/", "\\"}

\* the Attribution names a position of the input and the symbol that is there
IsAtItsPosition(input, a) ==
    /\ a.index + 1 \in 1..Len(input)
    /\ input[a.index + 1] = a.token

\* C19: when decoder has returned with attribute enabled, for an input of
\* one fragment without [nop], every atom token of the attribution map
\* carries a stack whose last entry is the position of the atom's symbol in
\* the input with that symbol, and whose earlier entries are Branch symbols
\* of the input, outermost first, each with its own position.
DecoderAttributesPositions ==
    (/\ pc \in {"done", "reencoded"}
     /\ alphabet = "given"
     /\ \A i \in 1..Len(selfies) : selfies[i] \notin {"[nop]", "."}) =>
        \A k \in 1..Len(attributionMap) :
            attributionMap[k].token \notin BondStrings =>
                \E stack \in {attributionMap[k].attribution} :
                    /\ Len(stack) >= 1
                    /\ \A i \in 1..Len(stack) : IsAtItsPosition(selfies, stack[i])
                    /\ \A i \in 1..(Len(stack) - 1) :
                           /\ stack[i].token \in SymbolsWithBranch
                           /\ stack[i].index < stack[i + 1].index

\* C20: when encoder has returned with attribute enabled, its attribution
\* map has an entry for every atom token of the SELFIES output - one for
\* each atom of the graph - and the attribution of each entry holds the
\* input index and the text of a token of the SMILES.
EncoderAttributesAtoms ==
    (/\ flow = "encode-decode"
     /\ pc # "encode"
     /\ encoded.err = "") =>
        \E atomEntries \in {SelectSeq(encoded.attribution,
                                LAMBDA e : e.token \notin SymbolsWithBranch
                                                         \cup SymbolsWithRing)} :
            /\ Len(atomEntries) = Len(SmilesToMol(smiles)[1].atoms)
            /\ \A k \in 1..Len(atomEntries) :
                   \E j \in 1..Len(atomEntries[k].attribution) :
                       IsAtItsPosition(smiles, atomEntries[k].attribution[j])

\* the bond count of every atom is the sum of the orders of its bonds
BondCountsAreOrderSums(m) ==
    \A i \in 1..Len(m.atoms) :
        GetBondCount(m, i - 1) = IncidentOrderSum(m, i - 1, Len(m.bonds))

\* C18: when kekulize() has returned true for a graph smilesToMol built with
\* aromatic atoms in it, no bond of the graph has order 1.5 (the two
\* directed copies of a ring bond included), no atom has its aromatic flag
\* set, the bond count of every atom is the sum of the orders of its bonds
\* as it was before the call, and isKekulized() is true.
KekulizedIsNotAromatic ==
    (/\ flow = "encode-decode"
     /\ pc # "encode"
     /\ SmilesToMol(smiles)[2] = ""
     /\ ~IsKekulized(SmilesToMol(smiles)[1])
     /\ BondCountsAreOrderSums(SmilesToMol(smiles)[1])) =>
        \E m \in {Kekulize(SmilesToMol(smiles)[1])} :
            /\ \A k \in 1..Len(m.bonds) : m.bonds[k].order # ORDER_AROMATIC
            /\ \A i \in 1..Len(m.atoms) : ~m.atoms[i].isAromatic
            /\ BondCountsAreOrderSums(m)
            /\ IsKekulized(m)



----------------------------------------------------------------------------
(* Properties of the bond-constraints API *)

\* C13: once setSemanticConstraints has returned, getSemanticConstraints
\* returns a mapping with the entries of the mapping that was passed, as it
\* was when it was passed, or the entries getPresetConstraints gives for the
\* name that was passed; whatever was set before, and whatever the caller
\* did in between
SetThenGetReturnsIt ==
    (call.op = "getSemanticConstraints" /\ lastSet.kind # "none") =>
        objects[call.ref] = IF lastSet.kind = "mapping" THEN lastSet.table
                            ELSE SpreadPreset(Mod, lastSet.name)

\* the mapping that was read, changed and set, as the test 'change
\* constraints cache clear' does, is the one returned
C13Witness ==
    /\ call.op = "getSemanticConstraints"
    /\ lastSet.kind = "mapping"
    /\ lastSet.table = CarbonOneConstraints
    /\ objects[call.ref] = CarbonOneConstraints

\* a preset was set by name and read back
C13WitnessPreset ==
    /\ call.op = "getSemanticConstraints"
    /\ lastSet.kind = "preset"
    /\ lastSet.name = "octet_rule"
    /\ objects[call.ref] = OctetRuleConstraints

\* C14: a write of the caller to a mapping it holds (one it got from
\* getSemanticConstraints or getPresetConstraints, one it passed to
\* setSemanticConstraints) changes neither the installed table, nor a preset,
\* nor a cache, nor what getBondingCapacity and decoder answer afterwards
CallerWritesStayOutside ==
    [][call'.op \in {"write", "delete"} =>
          /\ Installed(ModAfter) = Installed(Mod)
          /\ \A n \in DOMAIN PRESET_CONSTRAINTS :
                 objects'[PRESET_CONSTRAINTS[n]] = objects[PRESET_CONSTRAINTS[n]]
          /\ semanticRobustAlphabetCache' = semanticRobustAlphabetCache
          /\ bondingCapacityCache' = bondingCapacityCache
          /\ \A q \in CapacityQueries :
                 GetBondingCapacityCall(ModAfter, q[1], q[2]).ret
                     = GetBondingCapacityCall(Mod, q[1], q[2]).ret
          /\ "?" \in DOMAIN Installed(Mod) =>
                 \A toks \in ApiSelfies :
                     Decoder(EffectiveTable(ModAfter), toks)
                         = Decoder(EffectiveTable(Mod), toks)]_vars

\* the caller wrote to the very mapping it had passed to
\* setSemanticConstraints, and the installed table kept the entry
C14Witness ==
    /\ call.op = "write"
    /\ lastSet.kind = "mapping"
    /\ call.key \in DOMAIN lastSet.table
    /\ objects[call.ref] = (call.key :> call.capacity) @@ lastSet.table
    /\ objects[call.ref][call.key] # lastSet.table[call.key]
    /\ Installed(Mod) = lastSet.table

\* C15: the capacity memo and the cached alphabet only hold what the
\* installed table gives, and getBondingCapacity and
\* getSemanticRobustAlphabet return what the installed table gives, after
\* any calls
CachesFollowInstalledTable ==
    flow = "constraints" =>
        /\ \A key \in DOMAIN bondingCapacityCache :
               bondingCapacityCache[key] = TableEntry(Installed(Mod), key)
        /\ semanticRobustAlphabetCache # <<>> =>
               semanticRobustAlphabetCache[1]
                   = GetSemanticRobustAlphabet(Installed(Mod))
        /\ call.op = "getBondingCapacity" =>
               call.capacity = TableEntry(Installed(Mod), call.key)
        /\ call.op = "getSemanticRobustAlphabet" =>
               call.symbols = GetSemanticRobustAlphabet(Installed(Mod))

\* getBondingCapacity("C", 0) answers 1 under a table that was set with
\* C: 1, and the alphabet cached is the one without [=C]
C15Witness ==
    /\ call.op = "getBondingCapacity"
    /\ call.key = "C"
    /\ call.capacity = 1
    /\ DEFAULT_CONSTRAINTS["C"] # 1
    /\ semanticRobustAlphabetCache # <<>>
    /\ "[=C]" \notin semanticRobustAlphabetCache[1]
    /\ "[=C]" \in GetSemanticRobustAlphabet(DEFAULT_CONSTRAINTS)

\* an element name followed by a signed integer
IsChargedKey(chars) ==
    \E j \in 1..Len(chars) :
        /\ JoinTokens(SubSeq(chars, 1, j - 1)) \in ELEMENTS
        /\ chars[j] \in {"+", "-"}
        /\ IsDigits(SubSeq(chars, j + 1, Len(chars)))

\* what the contract admits as an argument of setSemanticConstraints
IsPresetName(name) == name \in {"default", "octet_rule", "hypervalent"}
IsConstraintsMapping(table) ==
    /\ "?" \in DOMAIN table
    /\ \A key \in DOMAIN table :
           /\ key = "?" \/ key \in ELEMENTS \/ IsChargedKey(KEY_CHARS[key])
           /\ table[key] # FRACTION /\ table[key] >= 0

\* C16: setSemanticConstraints throws on a name that is no preset, on a
\* mapping without "?", with a key that is no atom key or with a value that
\* is no non-negative integer; and a call that throws leaves the installed
\* table and both caches as they were
SetRejectsWhatIsInvalid ==
    [][call'.op = "setSemanticConstraints" =>
          /\ \A n \in PresetNames :
                 (call'.name = "string:" \o n /\ ~IsPresetName(n)) =>
                     call'.threw
          /\ (call'.name = "object:" /\ ~IsConstraintsMapping(call'.table)) =>
                 call'.threw
          /\ call'.name = "other:" => call'.threw
          /\ call'.threw =>
                 /\ Installed(ModAfter) = Installed(Mod)
                 /\ semanticRobustAlphabetCache' = semanticRobustAlphabetCache
                 /\ bondingCapacityCache' = bondingCapacityCache]_vars


\* C23: the result of a decoder or encoder call is what its input gives
\* under the installed table, whatever codec calls and capacity queries ran
\* before it and whatever they have written to the capacity memo; and a codec
\* call changes the answer of no later call.
CodecCallsDoNotInterfere ==
    /\ (flow = "constraints" /\ call.op = "decoder") =>
          \A toks \in ApiSelfies :
              JoinTokens(toks) = call.name =>
                  Decoder(Installed(Mod), toks) = <<call.tokens, call.err>>
    /\ (flow = "constraints" /\ call.op = "encoder") =>
          \A toks \in ApiSmiles :
              JoinTokens(toks) = call.name =>
                  \E out \in {Encoder(Installed(Mod), toks)} :
                      out.selfies = call.tokens /\ out.err = call.err

\* decoder has answered under a table that gives C one bond, after another
\* call had memoised the capacity of a charged nitrogen
C23Witness ==
    /\ call.op = "decoder"
    /\ call.name = "[C][#C]"
    /\ call.tokens = <<"C", "C">>
    /\ TableEntry(Installed(Mod), "C") = 1
    /\ {"C", "N+1"} \subseteq DOMAIN bondingCapacityCache

\* the bonds atom idx can still take
FreeCapacity(table, m, idx) ==
    Ord(BondingCapacity(table, GetAtom(m, idx))) - GetBondCount(m, idx)

\* C24: once ring resolution is over, every queued ring triple (a, b, order)
\* with a # b has left a bond between a and b, unless an endpoint has no
\* free capacity; however often a pair of atoms occurs in the queue.
RingTriplesFormIndependently ==
    (flow = "decode-encode" /\ pc \in {"smiles", "done"} /\ err = "") =>
        \A i \in 1..Len(rings) :
            \/ rings[i].left = rings[i].right
            \/ HasBond(mol, rings[i].left, rings[i].right)
            \/ FreeCapacity(constraints, mol, rings[i].left) <= 0
            \/ FreeCapacity(constraints, mol, rings[i].right) <= 0

\* C25: a step that reads a Branch symbol [bBranchL] in a frame whose state
\* is null, 0 or 1 adds no atom and still reads the next L symbols of the
\* stream as an index, for an input given in full.
SkippedBranchReadsIndex ==
    [][(/\ flow = "decode-encode"
        /\ alphabet = "given"
        /\ pc = "derive"
        /\ BranchReads(Cur) # {}
        /\ Top(Cur).state = Null \/ Top(Cur).state <= 1) =>
            /\ mol' = mol
            /\ \A r \in BranchReads(Cur) :
                  \E q \in ReadIndexFromSelfies(r.d.stream,
                                                ProcessBranchSymbol(r.tok)[2]) :
                      indexRead' = q.symbols]_vars

\* a branch frame is entered from a parent in state s with a symbol of type
\* t: it starts from the parent's prev atom in state min(s - 1, t), with a
\* budget of Q + 1 symbols
BranchFrameStarts ==
    (Len(frames) >= 1 /\ Len(frames') = Len(frames) + 1) =>
        LET s == frames[Len(frames)].state
            t == ProcessBranchSymbol(symbolRead')[1]
        IN  /\ s >= 2
            /\ frames'[Len(frames')].state = Min2(s - 1, t)
            /\ frames'[Len(frames')].prevAtom = frames[Len(frames)].prevAtom
            /\ frames'[Len(frames')].maxDerive
                    = GetIndexFromSelfies(indexRead') + 1
            /\ frames'[Len(frames)].state = s
            /\ frames'[Len(frames)].nextState
                    = (IF s - Min2(s - 1, t) = 0 THEN Null
                       ELSE s - Min2(s - 1, t))

\* a branch frame returns: the parent goes on from the same prev atom in the
\* state that was left for it
BranchFrameReturns ==
    (Len(frames') >= 1 /\ Len(frames) = Len(frames') + 1) =>
        /\ frames'[Len(frames')].prevAtom = frames[Len(frames')].prevAtom
        /\ frames'[Len(frames')].state = frames[Len(frames')].nextState

\* the symbols that have passed through a branch frame's generator, index
\* tails and nested branches included, are within its budget
BranchFramesWithinBudget ==
    \A i \in 2..Len(frames) : frames[i].index <= frames[i].maxDerive

\* C26: a branch taken with state s >= 2, type t and index Q starts from the
\* parent's prev atom in state min(s - 1, t) and consumes at most Q + 1
\* symbols of the shared stream in all; on return the parent goes on with the
\* same prev atom in state s - min(s - 1, t), null when that is 0.
BranchFrameContract ==
    [][flow = "decode-encode" =>
          /\ BranchFrameStarts
          /\ BranchFrameReturns
          /\ BranchFramesWithinBudget]_vars

\* C27: once the state of a derivation frame has been null, no step that
\* frame takes for a later symbol adds a bond to the graph.
NoBondAfterTermination ==
    [][(/\ flow = "decode-encode"
        /\ pc = "derive"
        /\ frames # <<>>
        /\ frames[Len(frames)].terminated) =>
            Len(mol'.bonds) = Len(mol.bonds)]_vars

\* the non-ring bonds that lead to atom idx from an atom of lower index
IncomingBonds(m, idx) ==
    {k \in 1..Len(m.bonds) :
        /\ ~m.bonds[k].ringBond
        /\ m.bonds[k].dst = idx
        /\ m.bonds[k].src < idx}

\* the atoms that the non-ring bonds lead to from the roots
RECURSIVE ReachableFrom(_, _)
ReachableFrom(m, seen) ==
    LET more == {m.bonds[k].dst : k \in {j \in 1..Len(m.bonds) :
                                            /\ ~m.bonds[j].ringBond
                                            /\ m.bonds[j].src \in seen}}
    IN  IF more \subseteq seen THEN seen ELSE ReachableFrom(m, seen \cup more)

\* C28: in every graph of the decoder, every atom that is not a fragment
\* root has exactly one incoming non-ring bond from an atom of lower index,
\* and every atom is reachable from a root.
EveryAtomIsRootOrBonded ==
    pc \in {"derive", "rings", "smiles", "done"} =>
        /\ \A idx \in 0..(MolLength(mol) - 1) :
              idx \notin SeqToSet(GetRoots(mol)) =>
                  Cardinality(IncomingBonds(mol, idx)) = 1
        /\ ReachableFrom(mol, SeqToSet(GetRoots(mol))) = 0..(MolLength(mol) - 1)

----------------------------------------------------------------------------
(* The index codec on its own: getSelfiesFromIndex and getIndexFromSelfies  *)
(* are applied one after the other, in either order.                        *)

\* the largest index given
MaxIndex == 300
\* the longest symbol sequence given
MaxDigits == 2

\* the symbols of the sequences given: the index alphabet and one symbol
\* outside it
IndexSymbols == SeqToSet(INDEX_ALPHABET) \cup {"[F]"}

IndexSequences ==
    UNION {[1..n -> IndexSymbols] : n \in 0..MaxDigits}

InitIndex ==
    /\ flow = "index"
    /\ CodecIdle
    /\ ConstraintsNotCalled
    /\ \/ /\ subject = "index first"
          /\ \E n \in 0..MaxIndex : given = [index |-> n, symbols |-> <<>>]
       \/ /\ subject = "symbols first"
          /\ \E xs \in IndexSequences : given = [index |-> 0, symbols |-> xs]
    /\ outputs = <<>>

ApplyGetSelfiesFromIndex ==
    /\ \/ subject = "index first" /\ outputs = <<>>
       \/ subject = "symbols first" /\ Len(outputs) = 1
    /\ outputs' = Append(outputs, GetSelfiesFromIndex(IF outputs = <<>> THEN given.index
                                              ELSE outputs[1]))
    /\ UNCHANGED <<codecVars, apiVars, subject, given>>

ApplyGetIndexFromSelfies ==
    /\ \/ subject = "symbols first" /\ outputs = <<>>
       \/ subject = "index first" /\ Len(outputs) = 1
    /\ outputs' = Append(outputs, GetIndexFromSelfies(IF outputs = <<>> THEN given.symbols
                                              ELSE outputs[1]))
    /\ UNCHANGED <<codecVars, apiVars, subject, given>>

NextIndex ==
    \/ ApplyGetSelfiesFromIndex
    \/ ApplyGetIndexFromSelfies

SpecIndex == InitIndex /\ [][NextIndex]_vars

\* no leading zero digit unless the sequence is the single zero symbol
HasNoLeadingZero(xs) ==
    (Len(xs) >= 1 /\ xs[1] = INDEX_ALPHABET[1]) => Len(xs) = 1

IsOverIndexAlphabet(xs) ==
    \A i \in 1..Len(xs) : xs[i] \in SeqToSet(INDEX_ALPHABET)

\* C17 as stated: the index read from the symbols of n is n, and the
\* symbols of the index read from xs are xs for every sequence xs over the
\* index alphabet without a leading zero digit
IndexRoundTripAsStated ==
    /\ (subject = "index first" /\ Len(outputs) = 2) => outputs[2] = given.index
    /\ (/\ subject = "symbols first" /\ Len(outputs) = 2
        /\ IsOverIndexAlphabet(given.symbols)
        /\ HasNoLeadingZero(given.symbols)) => outputs[2] = given.symbols

\* C17: the index read from the symbols of n is n, and the symbols of the
\* index read from xs are xs for every sequence xs of one symbol or more
\* over the index alphabet without a leading zero digit
IndexRoundTrip ==
    /\ (subject = "index first" /\ Len(outputs) = 2) => outputs[2] = given.index
    /\ (/\ subject = "symbols first" /\ Len(outputs) = 2
        /\ Len(given.symbols) >= 1
        /\ IsOverIndexAlphabet(given.symbols)
        /\ HasNoLeadingZero(given.symbols)) => outputs[2] = given.symbols

\* a sequence of two digits was read as an index of 16 or more and written
\* back
C17Witness ==
    /\ subject = "symbols first"
    /\ Len(outputs) = 2
    /\ Len(given.symbols) = 2
    /\ IsOverIndexAlphabet(given.symbols)
    /\ HasNoLeadingZero(given.symbols)
    /\ given.symbols[1] # given.symbols[2]
    /\ outputs[1] >= Len(INDEX_ALPHABET)
    /\ outputs[2] = given.symbols


----------------------------------------------------------------------------
(* selfies-utils on its own: lenSelfies, splitSelfies and                   *)
(* getAlphabetFromSelfies.  A SELFIES string is a sequence of characters.   *)

\* string.indexOf(c, from): the 0-based position of the first c at or after
\* from, -1 when there is none
RECURSIVE IndexOfFrom(_, _, _)
IndexOfFrom(chars, c, from) ==
    IF from >= Len(chars) THEN -1
    ELSE IF chars[from + 1] = c THEN from
    ELSE IndexOfFrom(chars, c, from + 1)

\* string.slice(from, to), for 0 <= from
Slice(chars, from, to) == SubSeq(chars, from + 1, Min2(to, Len(chars)))

\* (selfies.match(/c/g) || []).length
CountChar(chars, c) == Cardinality({i \in 1..Len(chars) : chars[i] = c})

\* lenSelfies
LenSelfies(chars) == CountChar(chars, "[") + CountChar(chars, ".")

\* splitSelfies that does not yield the dots
RECURSIVE SplitSelfiesWithoutDots(_, _, _)
SplitSelfiesWithoutDots(chars, leftIdx, yielded) ==
    IF ~(leftIdx >= 0 /\ leftIdx < Len(chars))
    THEN [symbols |-> yielded, threw |-> FALSE]
    ELSE LET rightIdx == IndexOfFrom(chars, "]", leftIdx + 1)
             nextSymbol == JoinTokens(Slice(chars, leftIdx, rightIdx + 1))
             hasDot == Slice(chars, rightIdx + 1, rightIdx + 2) = <<".">>
         IN  IF rightIdx = -1 THEN [symbols |-> yielded, threw |-> TRUE]
             ELSE SplitSelfiesWithoutDots(
                      chars,
                      IndexOfFrom(chars, "[",
                                  rightIdx + 1 + (IF hasDot THEN 1 ELSE 0)),
                      Append(yielded, nextSymbol))

\* splitSelfies, the loop from leftIdx on: the symbols yielded, and whether
\* the generator threw
RECURSIVE SplitSelfies(_, _, _)
SplitSelfies(chars, leftIdx, yielded) ==
    IF ~(leftIdx >= 0 /\ leftIdx < Len(chars))
    THEN [symbols |-> yielded, threw |-> FALSE]
    ELSE LET rightIdx == IndexOfFrom(chars, "]", leftIdx + 1)
             nextSymbol == JoinTokens(Slice(chars, leftIdx, rightIdx + 1))
             hasDot == Slice(chars, rightIdx + 1, rightIdx + 2) = <<".">>
         IN  IF rightIdx = -1 THEN [symbols |-> yielded, threw |-> TRUE]
             ELSE SplitSelfies(
                      chars,
                      IndexOfFrom(chars, "[",
                                  rightIdx + 1 + (IF hasDot THEN 1 ELSE 0)),
                      Append(yielded, nextSymbol)
                          \o (IF hasDot THEN <<".">> ELSE <<>>))

\* getAlphabetFromSelfies: the alphabet, and whether splitSelfies threw
GetAlphabetFromSelfies(selfiesIter) ==
    LET splits == [i \in 1..Len(selfiesIter) |->
                      SplitSelfies(selfiesIter[i], IndexOfFrom(selfiesIter[i], "[", 0),
                                   <<>>)]
    IN  [alphabet |-> UNION {SeqToSet(splits[i].symbols) : i \in 1..Len(splits)}
                          \ {"."},
         threw |-> \E i \in 1..Len(splits) : splits[i].threw]

\* the most symbols and dots of a string that is given
MaxUtilTokens == 3

\* the symbols and the dot the strings are written with, by character
UtilTokens == {"[C]", "[=C]", "[Branch1]", "[nop]", "."}

TokenChars(token) ==
    CASE token = "[C]" -> <<"[", "C", "]">>
      [] token = "[=C]" -> <<"[", "=", "C", "]">>
      [] token = "[Branch1]" ->
            <<"[", "B", "r", "a", "n", "c", "h", "1", "]">>
      [] token = "[nop]" -> <<"[", "n", "o", "p", "]">>
      [] OTHER -> <<".">>

\* the characters of the string the tokens spell
RECURSIVE SpellTokens(_)
SpellTokens(toks) ==
    IF toks = <<>> THEN <<>> ELSE TokenChars(Head(toks)) \o SpellTokens(Tail(toks))

\* the second string getAlphabetFromSelfies is given
OtherUtilStrings == {<<>>, <<"[C]", ".", "[C]">>, <<"[Branch1]", "[=C]">>}

\* bracketed symbols, in fragments of one symbol or more that single dots
\* separate
IsWellFormedSelfies(toks) ==
    /\ toks # <<>> => (toks[1] # "." /\ toks[Len(toks)] # ".")
    /\ \A i \in 1..(Len(toks) - 1) : ~(toks[i] = "." /\ toks[i + 1] = ".")

NothingSplit ==
    [applied |-> {}, len |-> 0, symbols |-> <<>>, threw |-> FALSE,
     alphabet |-> {}]

InitUtils ==
    /\ flow = "selfies-utils"
    /\ CodecIdle
    /\ ConstraintsNotCalled
    /\ subject = "selfies-utils"
    /\ \E toks \in TokenStrings(UtilTokens, MaxUtilTokens), other \in OtherUtilStrings :
          given = [tokens |-> <<toks, other>>,
                   strings |-> <<SpellTokens(toks), SpellTokens(other)>>]
    /\ outputs = NothingSplit

ApplyLenSelfies ==
    /\ subject = "selfies-utils"
    /\ "lenSelfies" \notin outputs.applied
    /\ outputs' = [outputs EXCEPT !.applied = @ \cup {"lenSelfies"},
                                  !.len = LenSelfies(given.strings[1])]
    /\ UNCHANGED <<codecVars, apiVars, subject, given>>

ApplySplitSelfies ==
    /\ subject = "selfies-utils"
    /\ "splitSelfies" \notin outputs.applied
    /\ \E out \in {SplitSelfies(given.strings[1],
                                IndexOfFrom(given.strings[1], "[", 0), <<>>)} :
          outputs' = [outputs EXCEPT !.applied = @ \cup {"splitSelfies"},
                                     !.symbols = out.symbols,
                                     !.threw = out.threw]
    /\ UNCHANGED <<codecVars, apiVars, subject, given>>

ApplyGetAlphabetFromSelfies ==
    /\ subject = "selfies-utils"
    /\ "getAlphabetFromSelfies" \notin outputs.applied
    /\ outputs' = [outputs EXCEPT
                      !.applied = @ \cup {"getAlphabetFromSelfies"},
                      !.alphabet = GetAlphabetFromSelfies(given.strings).alphabet]
    /\ UNCHANGED <<codecVars, apiVars, subject, given>>

NextUtils ==
    \/ ApplyLenSelfies
    \/ ApplySplitSelfies
    \/ ApplyGetAlphabetFromSelfies

SpecUtils == InitUtils /\ [][NextUtils]_vars

\* C21: for a well-formed SELFIES string, lenSelfies is the number of symbols
\* splitSelfies yields, splitSelfies yields the bracketed symbols and the
\* dots in input order, and getAlphabetFromSelfies returns the set of the
\* bracketed symbols of its inputs, without the dot.
UtilsAgreeOnWellFormed ==
    (/\ subject = "selfies-utils"
     /\ IsWellFormedSelfies(given.tokens[1])
     /\ IsWellFormedSelfies(given.tokens[2])) =>
        /\ "splitSelfies" \in outputs.applied =>
              /\ ~outputs.threw
              /\ outputs.symbols = given.tokens[1]
        /\ {"lenSelfies", "splitSelfies"} \subseteq outputs.applied =>
              outputs.len = Len(outputs.symbols)
        /\ "getAlphabetFromSelfies" \in outputs.applied =>
              outputs.alphabet = (SeqToSet(given.tokens[1])
                                      \cup SeqToSet(given.tokens[2])) \ {"."}

\* the three functions were applied to a string of two fragments
C21Witness ==
    /\ subject = "selfies-utils"
    /\ given.tokens[1] = <<"[C]", ".", "[=C]">>
    /\ given.tokens[2] = <<"[Branch1]", "[=C]">>
    /\ outputs.applied = {"lenSelfies", "splitSelfies", "getAlphabetFromSelfies"}
    /\ outputs.len = 3
    /\ outputs.symbols = <<"[C]", ".", "[=C]">>
    /\ outputs.alphabet = {"[C]", "[=C]", "[Branch1]"}


----------------------------------------------------------------------------
(* encoding-utils on its own: the label and one-hot encodings.  A           *)
(* vocabulary is a function from symbols to indices (vocabStoi) or from     *)
(* indices to symbols (vocabItos).                                          *)

\* '[nop]'.repeat(padCount)
RECURSIVE RepeatNop(_)
RepeatNop(padCount) ==
    IF padCount <= 0 THEN <<>> ELSE TokenChars("[nop]") \o RepeatNop(padCount - 1)

\* new Array(vocabSize).fill(0) with letter[index] = 1: the array grows when
\* the index is past its end
OneHotLetter(vocabSize, index) ==
    [j \in 1..Max2(vocabSize, index + 1) |-> IF j = index + 1 THEN 1 ELSE 0]

EncodingThrew == [label |-> <<>>, oneHot |-> <<>>, threw |-> TRUE]

\* selfiesToEncoding that never pads
SelfiesToEncodingUnpadded(selfiesString, vocabStoi, padToLen, encType) ==
    LET split == SplitSelfies(selfiesString, IndexOfFrom(selfiesString, "[", 0), <<>>)
        integerEncoded == [i \in 1..Len(split.symbols) |-> vocabStoi[split.symbols[i]]]
    IN  IF split.threw \/ \E i \in 1..Len(split.symbols) :
                              split.symbols[i] \notin DOMAIN vocabStoi
        THEN EncodingThrew
        ELSE [label |-> IF encType = "one_hot" THEN <<>> ELSE integerEncoded,
              oneHot |-> IF encType = "label" THEN <<>>
                         ELSE [i \in 1..Len(integerEncoded) |->
                                  OneHotLetter(Cardinality(DOMAIN vocabStoi),
                                               integerEncoded[i])],
              threw |-> FALSE]

\* selfiesToEncoding: the label and the one-hot encoding the call returns (the
\* one encType does not ask for is left empty), or that it threw
SelfiesToEncoding(selfiesString, vocabStoi, padToLen, encType) ==
    LET paddedSelfies ==
            IF padToLen > LenSelfies(selfiesString)
            THEN selfiesString \o RepeatNop(padToLen - LenSelfies(selfiesString))
            ELSE selfiesString
        split == SplitSelfies(paddedSelfies, IndexOfFrom(paddedSelfies, "[", 0), <<>>)
        integerEncoded == [i \in 1..Len(split.symbols) |-> vocabStoi[split.symbols[i]]]
    IN  IF split.threw \/ \E i \in 1..Len(split.symbols) :
                              split.symbols[i] \notin DOMAIN vocabStoi
        THEN EncodingThrew
        ELSE [label |-> IF encType = "one_hot" THEN <<>> ELSE integerEncoded,
              oneHot |-> IF encType = "label" THEN <<>>
                         ELSE [i \in 1..Len(integerEncoded) |->
                                  OneHotLetter(Cardinality(DOMAIN vocabStoi),
                                               integerEncoded[i])],
              threw |-> FALSE]

\* row.indexOf(1)
RowIndexOfOne(row) ==
    IF \E j \in 1..Len(row) : row[j] = 1
    THEN (CHOOSE j \in 1..Len(row) :
              row[j] = 1 /\ \A k \in 1..(j - 1) : row[k] # 1) - 1
    ELSE -1

\* encodingToSelfies: the string, or that it threw
EncodingToSelfies(encoding, vocabItos, encType) ==
    LET integerEncoded ==
            IF encType = "one_hot"
            THEN [i \in 1..Len(encoding) |-> RowIndexOfOne(encoding[i])]
            ELSE encoding
    IN  IF \E i \in 1..Len(integerEncoded) : integerEncoded[i] \notin DOMAIN vocabItos
        THEN [selfies |-> <<>>, threw |-> TRUE]
        ELSE [selfies |-> SpellTokens([i \in 1..Len(integerEncoded) |->
                                          vocabItos[integerEncoded[i]]]),
              threw |-> FALSE]

\* array.flat()
RECURSIVE Flat(_)
Flat(rows) == IF rows = <<>> THEN <<>> ELSE Head(rows) \o Flat(Tail(rows))

\* batchSelfiesToFlatHot
BatchSelfiesToFlatHot(selfiesBatch, vocabStoi, padToLen) ==
    LET hots == [i \in 1..Len(selfiesBatch) |->
                       SelfiesToEncoding(selfiesBatch[i], vocabStoi, padToLen,
                                         "one_hot")]
    IN  [hotList |-> [i \in 1..Len(selfiesBatch) |-> Flat(hots[i].oneHot)],
         threw |-> \E i \in 1..Len(selfiesBatch) : hots[i].threw]

\* batchFlatHotToSelfies
BatchFlatHotToSelfies(oneHotBatch, vocabItos) ==
    LET vocabSize == Cardinality(DOMAIN vocabItos)
        oneHot(flatOneHot) ==
            [i \in 1..(Len(flatOneHot) \div vocabSize) |->
                SubSeq(flatOneHot, vocabSize * (i - 1) + 1, vocabSize * i)]
        decoded == [b \in 1..Len(oneHotBatch) |->
                       EncodingToSelfies(oneHot(oneHotBatch[b]), vocabItos,
                                         "one_hot")]
    IN  [selfiesList |-> [b \in 1..Len(oneHotBatch) |-> decoded[b].selfies],
         threw |-> \/ \E b \in 1..Len(oneHotBatch) :
                          Len(oneHotBatch[b]) % vocabSize # 0
                   \/ \E b \in 1..Len(oneHotBatch) : decoded[b].threw]

\* the largest padToLen that is given
MaxPadToLen == 3

\* the vocabularies that are given, as the list of their symbols by index:
\* with and without [nop], with and without the dot
Vocabularies ==
    {<<"[nop]", "[C]", "[=C]", "[Branch1]", ".">>,
     <<"[C]", "[=C]", ".", "[Branch1]">>,
     <<"[C]", "[nop]", "[=C]">>}

\* the two dictionaries of a vocabulary
VocabItos(symbols) == [i \in 0..(Len(symbols) - 1) |-> symbols[i + 1]]
VocabStoi(symbols) ==
    [x \in SeqToSet(symbols) |-> CHOOSE i \in 0..(Len(symbols) - 1) : symbols[i + 1] = x]

\* the second string of a batch
OtherBatchStrings == {<<"[C]", "[=C]">>, <<"[Branch1]", ".", "[C]">>}

NothingEncoded ==
    [stage |-> "given", encType |-> "", label |-> <<>>, oneHot |-> <<>>,
     threw |-> FALSE, selfies |-> <<>>, hotList |-> <<>>, selfiesList |-> <<>>]

InitEncoding ==
    /\ flow = "encoding-utils"
    /\ CodecIdle
    /\ ConstraintsNotCalled
    /\ subject = "encoding-utils"
    /\ \E toks \in TokenStrings(UtilTokens, MaxUtilTokens),
          other \in OtherBatchStrings,
          vocab \in Vocabularies,
          padToLen \in (-1)..MaxPadToLen :
          given = [tokens |-> <<toks, other>>,
                   strings |-> <<SpellTokens(toks), SpellTokens(other)>>,
                   vocab |-> vocab,
                   padToLen |-> padToLen]
    /\ outputs = NothingEncoded

ApplySelfiesToEncoding ==
    /\ subject = "encoding-utils"
    /\ outputs.stage = "given"
    /\ \E encType \in {"label", "one_hot", "both"} :
       \E out \in {SelfiesToEncoding(given.strings[1], VocabStoi(given.vocab),
                                     given.padToLen, encType)} :
          outputs' = [outputs EXCEPT !.stage = "encoded",
                                     !.encType = encType,
                                     !.label = out.label,
                                     !.oneHot = out.oneHot,
                                     !.threw = out.threw]
    /\ UNCHANGED <<codecVars, apiVars, subject, given>>

ApplyEncodingToSelfies ==
    /\ subject = "encoding-utils"
    /\ outputs.stage = "encoded"
    /\ ~outputs.threw
    /\ \E encType \in {"label", "one_hot"} :
          /\ outputs.encType \in {encType, "both"}
          /\ \E out \in {EncodingToSelfies(IF encType = "label" THEN outputs.label
                                           ELSE outputs.oneHot,
                                           VocabItos(given.vocab), encType)} :
                outputs' = [outputs EXCEPT !.stage = "decoded",
                                           !.encType = encType,
                                           !.selfies = out.selfies,
                                           !.threw = out.threw]
    /\ UNCHANGED <<codecVars, apiVars, subject, given>>

ApplyBatchSelfiesToFlatHot ==
    /\ subject = "encoding-utils"
    /\ outputs.stage = "given"
    /\ \E out \in {BatchSelfiesToFlatHot(given.strings, VocabStoi(given.vocab),
                                         given.padToLen)} :
          outputs' = [outputs EXCEPT !.stage = "flat",
                                     !.hotList = out.hotList,
                                     !.threw = out.threw]
    /\ UNCHANGED <<codecVars, apiVars, subject, given>>

ApplyBatchFlatHotToSelfies ==
    /\ subject = "encoding-utils"
    /\ outputs.stage = "flat"
    /\ ~outputs.threw
    /\ \E out \in {BatchFlatHotToSelfies(outputs.hotList, VocabItos(given.vocab))} :
          outputs' = [outputs EXCEPT !.stage = "unflat",
                                     !.selfiesList = out.selfiesList,
                                     !.threw = out.threw]
    /\ UNCHANGED <<codecVars, apiVars, subject, given>>

NextEncoding ==
    \/ ApplySelfiesToEncoding
    \/ ApplyEncodingToSelfies
    \/ ApplyBatchSelfiesToFlatHot
    \/ ApplyBatchFlatHotToSelfies

SpecEncoding == InitEncoding /\ [][NextEncoding]_vars

\* the string with every [nop] removed
RECURSIVE RemoveNop(_)
RemoveNop(chars) ==
    IF chars = <<>> THEN <<>>
    ELSE IF Len(chars) >= 5 /\ SubSeq(chars, 1, 5) = TokenChars("[nop]")
    THEN RemoveNop(SubSeq(chars, 6, Len(chars)))
    ELSE <<Head(chars)>> \o RemoveNop(Tail(chars))

\* a well-formed string without [nop] whose symbols are keys of the vocabulary
IsEncodable(toks, vocab) ==
    /\ IsWellFormedSelfies(toks)
    /\ "[nop]" \notin SeqToSet(toks)
    /\ SeqToSet(toks) \subseteq SeqToSet(vocab)

\* the round trip of the encodings of the strings that are given
EncodingRoundTrips ==
    /\ outputs.stage = "encoded" =>
          /\ ~outputs.threw
          /\ outputs.encType # "one_hot" =>
                Len(outputs.label)
                    = Max2(LenSelfies(given.strings[1]), given.padToLen)
          /\ \A i \in 1..Len(outputs.oneHot) :
                Cardinality({j \in 1..Len(outputs.oneHot[i]) :
                                outputs.oneHot[i][j] = 1}) = 1
    /\ outputs.stage = "decoded" =>
          /\ ~outputs.threw
          /\ RemoveNop(outputs.selfies) = given.strings[1]
    /\ outputs.stage = "flat" => ~outputs.threw
    /\ outputs.stage = "unflat" =>
          /\ ~outputs.threw
          /\ Len(outputs.selfiesList) = 2
          /\ \A b \in 1..2 : RemoveNop(outputs.selfiesList[b]) = given.strings[b]

\* the round trip for every vocabulary and every padToLen
EncodingRoundTripAsStated ==
    (/\ subject = "encoding-utils"
     /\ IsEncodable(given.tokens[1], given.vocab)
     /\ outputs.stage \in {"flat", "unflat"} =>
           IsEncodable(given.tokens[2], given.vocab)) => EncodingRoundTrips

\* padding is asked for and [nop] is not a key of the vocabulary
PadsWithoutNop(toks, vocab, padToLen) ==
    padToLen > Len(toks) /\ "[nop]" \notin SeqToSet(vocab)

\* C22: for a well-formed string without [nop] whose symbols are keys of the
\* vocabulary, and a vocabulary that has the key [nop] whenever padToLen is
\* larger than the string's length, decoding the label or the one-hot
\* encoding and removing every [nop] gives the string back, in a batch as
\* well; the label has length max(lenSelfies(s), padToLen) and every one-hot
\* row has exactly one 1.
EncodingRoundTrip ==
    (/\ subject = "encoding-utils"
     /\ IsEncodable(given.tokens[1], given.vocab)
     /\ ~PadsWithoutNop(given.tokens[1], given.vocab, given.padToLen)
     /\ outputs.stage \in {"flat", "unflat"} =>
           /\ IsEncodable(given.tokens[2], given.vocab)
           /\ ~PadsWithoutNop(given.tokens[2], given.vocab, given.padToLen))
        => EncodingRoundTrips

\* a padded one-hot encoding of two fragments was decoded
C22Witness ==
    /\ subject = "encoding-utils"
    /\ given.tokens[1] = <<"[C]", ".", "[=C]">>
    /\ given.vocab = <<"[nop]", "[C]", "[=C]", "[Branch1]", ".">>
    /\ given.padToLen = 2
    /\ outputs.stage = "decoded"
    /\ outputs.encType = "one_hot"
    /\ ~outputs.threw
    /\ outputs.selfies = SpellTokens(<<"[C]", ".", "[=C]">>)

\* a padded batch was decoded
C22WitnessPadded ==
    /\ subject = "encoding-utils"
    /\ given.tokens[1] = <<"[C]">>
    /\ given.padToLen = 3
    /\ outputs.stage = "unflat"
    /\ outputs.selfiesList[1] = SpellTokens(<<"[C]", "[nop]", "[nop]">>)


----------------------------------------------------------------------------
(* matching-utils on its own: findPerfectMatching.  A graph is an adjacency *)
(* list; the nodes are numbered from 1 here, and Null is null.              *)

\* nodePQueue after the sort by degree, which is stable: the nodes by
\* (degree, node)
SortedByDegree(graph) ==
    LET before(i) == {j \in 1..Len(graph) :
                         \/ Len(graph[j]) < Len(graph[i])
                         \/ (Len(graph[j]) = Len(graph[i]) /\ j < i)}
    IN  [k \in 1..Len(graph) |->
            CHOOSE i \in 1..Len(graph) : Cardinality(before(i)) = k - 1]

\* how often node v is in the list
Occurrences(list, v) == Cardinality({k \in 1..Len(list) : list[k] = v})

\* the loop of greedyMatching from queueIndex on
RECURSIVE GreedyLoop(_, _, _, _, _)
GreedyLoop(graph, nodePQueue, queueIndex, matching, freeDegrees) ==
    IF queueIndex > Len(nodePQueue) THEN matching
    ELSE LET node == nodePQueue[queueIndex]
             free == {k \in 1..Len(graph[node]) : matching[graph[node][k]] = Null}
             \* the first free neighbour of the smallest free degree
             best == CHOOSE k \in free :
                        \A j \in free :
                            \/ freeDegrees[graph[node][k]] < freeDegrees[graph[node][j]]
                            \/ (/\ freeDegrees[graph[node][k]]
                                       = freeDegrees[graph[node][j]]
                                /\ k <= j)
             bestNeighbor == graph[node][best]
         IN  IF matching[node] # Null \/ freeDegrees[node] = 0 \/ free = {}
             THEN GreedyLoop(graph, nodePQueue, queueIndex + 1, matching,
                             freeDegrees)
             ELSE GreedyLoop(graph, nodePQueue, queueIndex + 1,
                             [matching EXCEPT ![node] = bestNeighbor,
                                              ![bestNeighbor] = node],
                             [v \in 1..Len(graph) |->
                                 freeDegrees[v]
                                     - Occurrences(graph[node], v)
                                     - Occurrences(graph[bestNeighbor], v)])

\* greedyMatching
GreedyMatching(graph) ==
    GreedyLoop(graph, SortedByDegree(graph), 1,
               [v \in 1..Len(graph) |-> Null],
               [v \in 1..Len(graph) |-> Len(graph[v])])

\* the path from the root to node v along parent
RECURSIVE PathTo(_, _)
PathTo(parent, v) ==
    IF parent[v] = Null THEN <<v>> ELSE Append(PathTo(parent, parent[v]), v)

\* the search of findAugmentingPath: node is the node taken from the queue
\* (Null when the next one is due) and k the position in its neighbours; the
\* path found, or <<>> for null
RECURSIVE AugmentingSearch(_, _, _, _, _, _, _)
AugmentingSearch(graph, matching, queue, node, k, visited, parent) ==
    IF node = Null
    THEN IF queue = <<>> THEN <<>>
         ELSE AugmentingSearch(graph, matching, Tail(queue), Head(queue), 1,
                               visited, parent)
    ELSE IF k > Len(graph[node])
    THEN AugmentingSearch(graph, matching, queue, Null, 1, visited, parent)
    ELSE LET neighbor == graph[node][k]
             match == matching[neighbor]
             parent1 == [parent EXCEPT ![neighbor] = node]
         IN  IF neighbor \in visited
             THEN AugmentingSearch(graph, matching, queue, node, k + 1, visited,
                                   parent)
             ELSE IF match = Null THEN PathTo(parent1, neighbor)
             ELSE IF match \notin visited \cup {neighbor}
             THEN AugmentingSearch(graph, matching, Append(queue, match), node,
                                   k + 1, visited \cup {neighbor, match},
                                   [parent1 EXCEPT ![match] = neighbor])
             ELSE AugmentingSearch(graph, matching, queue, node, k + 1,
                                   visited \cup {neighbor}, parent1)

\* findAugmentingPath
FindAugmentingPath(graph, root, matching) ==
    AugmentingSearch(graph, matching, <<>>, root, 1, {root},
                     [v \in 1..Len(graph) |-> Null])

\* flipAugmentingPath, the loop from i on
RECURSIVE FlipAugmentingPath(_, _, _)
FlipAugmentingPath(matching, path, i) ==
    IF i > Len(path) - 1 THEN matching
    ELSE FlipAugmentingPath([matching EXCEPT ![path[i]] = path[i + 1],
                                             ![path[i + 1]] = path[i]],
                            path, i + 1)

NoMatching == [matching |-> <<>>, isNull |-> TRUE]

\* the loop of findPerfectMatching; unmatched in insertion order
RECURSIVE AugmentLoop(_, _, _)
AugmentLoop(graph, matching, unmatched) ==
    IF unmatched = <<>> THEN [matching |-> matching, isNull |-> FALSE]
    ELSE LET root == Head(unmatched)
             path == FindAugmentingPath(graph, root, matching)
         IN  IF path = <<>> THEN NoMatching
             ELSE AugmentLoop(graph, FlipAugmentingPath(matching, path, 1),
                              SelectSeq(Tail(unmatched),
                                        LAMBDA v : v # path[1] /\ v # path[Len(path)]))

\* findPerfectMatching
FindPerfectMatching(graph) ==
    LET matching == GreedyMatching(graph)
    IN  AugmentLoop(graph, matching,
                    SelectSeq([v \in 1..Len(graph) |-> v],
                              LAMBDA v : matching[v] = Null))

\* the most nodes and the most edges of a graph that is given
MaxNodes == 6
MaxGraphEdges == 6

\* the edges a graph on n nodes can have
PossibleEdges(n) == {e \in SUBSET (1..n) : Cardinality(e) = 2}

\* the sets of at most k of the edges
RECURSIVE EdgeSets(_, _)
EdgeSets(edges, k) ==
    IF k = 0 THEN {{}}
    ELSE LET fewer == EdgeSets(edges, k - 1)
         IN  fewer \cup {es \cup {e} : es \in fewer, e \in edges}

\* the neighbours of v in ascending or descending order
RECURSIVE Ascending(_)
Ascending(set) ==
    IF set = {} THEN <<>>
    ELSE LET least == CHOOSE x \in set : \A y \in set : x <= y
         IN  <<least>> \o Ascending(set \ {least})

Reverse(list) == [k \in 1..Len(list) |-> list[Len(list) + 1 - k]]

AdjacencyList(n, edges, order) ==
    [v \in 1..n |->
        LET neighbors == Ascending({u \in 1..n : {u, v} \in edges})
        IN  IF order = "ascending" THEN neighbors ELSE Reverse(neighbors)]

\* every graph of at most MaxNodes nodes and MaxGraphEdges edges
DrawnGraphs ==
    UNION {{[n |-> n, edges |-> es] :
               es \in EdgeSets(PossibleEdges(n), MaxGraphEdges)} :
           n \in 2..MaxNodes}

\* graphs of eight nodes: a ring of eight, which is bipartite, and a ring of
\* five with a tail of three nodes, which is not; both have a perfect
\* matching
RingOfEight ==
    [n |-> 8,
     edges |-> {{1, 5}, {1, 7}, {2, 4}, {2, 8}, {3, 4}, {3, 5}, {6, 7}, {6, 8}}]
RingOfFiveWithTail ==
    [n |-> 8,
     edges |-> {{1, 4}, {2, 3}, {2, 5}, {3, 7}, {4, 8}, {5, 6}, {6, 7}, {6, 8}}]
GivenGraphs == {RingOfEight, RingOfFiveWithTail}

NotMatched == [applied |-> FALSE, matching |-> <<>>, isNull |-> FALSE]

InitMatching ==
    /\ flow = "matching-utils"
    /\ CodecIdle
    /\ ConstraintsNotCalled
    /\ subject = "matching-utils"
    /\ \E g \in DrawnGraphs \cup GivenGraphs,
          order \in {"ascending", "descending"} :
          given = [n |-> g.n, edges |-> g.edges,
                   graph |-> AdjacencyList(g.n, g.edges, order)]
    /\ outputs = NotMatched

ApplyFindPerfectMatching ==
    /\ subject = "matching-utils"
    /\ ~outputs.applied
    /\ \E out \in {FindPerfectMatching(given.graph)} :
          outputs' = [applied |-> TRUE, matching |-> out.matching,
                      isNull |-> out.isNull]
    /\ UNCHANGED <<codecVars, apiVars, subject, given>>

NextMatching == ApplyFindPerfectMatching

SpecMatching == InitMatching /\ [][NextMatching]_vars

\* C29: a result of findPerfectMatching that is not null is a perfect
\* matching: every node has a partner, the partner is a neighbour, and the
\* partner's partner is the node.
ResultIsPerfectMatching ==
    (subject = "matching-utils" /\ outputs.applied /\ ~outputs.isNull) =>
        \A i \in 1..given.n :
            /\ outputs.matching[i] # Null
            /\ {i, outputs.matching[i]} \in given.edges
            /\ outputs.matching[outputs.matching[i]] = i

\* the graph has a perfect matching on these nodes
RECURSIVE HasPerfectMatching(_, _)
HasPerfectMatching(edges, nodes) ==
    IF nodes = {} THEN TRUE
    ELSE LET v == CHOOSE x \in nodes : \A y \in nodes : x <= y
         IN  \E u \in nodes \ {v} :
                 /\ {u, v} \in edges
                 /\ HasPerfectMatching(edges, nodes \ {u, v})

IsBipartite(n, edges) ==
    \E side \in SUBSET (1..n) :
        \A e \in edges : Cardinality(e \cap side) = 1

\* C30: for a bipartite graph that has a perfect matching the result of
\* findPerfectMatching is not null, and the result is null only for a graph
\* that has no perfect matching.
FindsMatchingWhenThereIsOne ==
    (subject = "matching-utils" /\ outputs.applied) =>
        /\ (/\ IsBipartite(given.n, given.edges)
            /\ HasPerfectMatching(given.edges, 1..given.n)) => ~outputs.isNull
        /\ outputs.isNull => ~HasPerfectMatching(given.edges, 1..given.n)


----------------------------------------------------------------------------
(* mol-graph on its own: the methods of MolecularGraph called in any order *)

\* the most atoms and the most DirectedBond objects of a graph that is built
MaxGraphAtoms == 2
MaxGraphBonds == 3

\* the atoms that are added: a carbon, and an aromatic carbon
GraphAtoms == {NewAtom("C", FALSE, Null, "", Null, 0),
               NewAtom("C", TRUE, Null, "", Null, 0)}

\* the bond orders that are passed, and the stereo marks
GraphOrders == {Ord(1), ORDER_AROMATIC, Ord(2)}
GraphStereos == {"", "/"}

\* no DirectedBond: what a call that returns none, or throws, leaves; the
\* arguments are kept for getDirBond only
NoBond == NewDirectedBond(Null, Null, 0, "", FALSE)

NoGraphCall ==
    [op |-> "", a |-> Null, b |-> Null, threw |-> FALSE, bond |-> NoBond,
     stored |-> FALSE]

GraphCall(op, a, b, threw) ==
    [NoGraphCall EXCEPT !.op = op, !.a = a, !.b = b, !.threw = threw]

InitGraph ==
    /\ flow = "mol-graph"
    /\ CodecIdle
    /\ ConstraintsNotCalled
    /\ subject = "mol-graph"
    /\ given = NewMolecularGraph(FALSE)
    /\ outputs = NoGraphCall

\* what a method that may throw leaves: the graph it changed, or the graph
\* as it was when the Error is thrown before any change
Unfaulted(before, after) == IF after.fault = "" THEN after ELSE before

CallAddAtom ==
    /\ subject = "mol-graph"
    /\ MolLength(given) < MaxGraphAtoms
    /\ \E atom \in GraphAtoms :
          /\ given' = AddAtom(given, atom, MolLength(given) = 0)
          /\ outputs' = GraphCall("addAtom", Null, Null, FALSE)
    /\ UNCHANGED <<codecVars, apiVars, subject>>

CallAddBond ==
    /\ subject = "mol-graph"
    /\ Len(given.bonds) < MaxGraphBonds
    /\ \E src \in 0..(MolLength(given) - 1), dst \in 0..(MolLength(given) - 1),
          order \in GraphOrders, stereo \in GraphStereos :
          \E after \in {AddBond(given, src, dst, order, stereo)} :
              /\ given' = Unfaulted(given, after)
              /\ outputs' = GraphCall("addBond", Null, Null, after.fault # "")
    /\ UNCHANGED <<codecVars, apiVars, subject>>

CallAddRingBond ==
    /\ subject = "mol-graph"
    /\ Len(given.bonds) + 2 <= MaxGraphBonds
    /\ \E a \in 0..(MolLength(given) - 1), b \in 0..(MolLength(given) - 1),
          order \in GraphOrders :
          /\ a # b
          /\ given' = AddRingBond(given, a, b, order, "", "", -1, -1)
          /\ outputs' = GraphCall("addRingBond", Null, Null, FALSE)
    /\ UNCHANGED <<codecVars, apiVars, subject>>

CallUpdateBondOrder ==
    /\ subject = "mol-graph"
    /\ \E a \in 0..(MolLength(given) - 1), b \in 0..(MolLength(given) - 1),
          newOrder \in {0, Ord(1), Ord(2), Ord(3)} :
          \E after \in {UpdateBondOrder(given, a, b, newOrder)} :
              /\ given' = Unfaulted(given, after)
              /\ outputs' = GraphCall("updateBondOrder", Null, Null,
                                       after.fault # "")
    /\ UNCHANGED <<codecVars, apiVars, subject>>

CallKekulize ==
    /\ subject = "mol-graph"
    /\ given' = Kekulize(given)
    /\ outputs' = GraphCall("kekulize", Null, Null, FALSE)
    /\ UNCHANGED <<codecVars, apiVars, subject>>

\* getDirBond(src, dst): the bond returned, and whether it is the object
\* _bondDict holds
CallGetDirBond ==
    /\ subject = "mol-graph"
    /\ \E src \in 0..(MolLength(given) - 1), dst \in 0..(MolLength(given) - 1) :
          outputs' = IF HasDirBond(given, src, dst)
                     THEN [GraphCall("getDirBond", src, dst, FALSE)
                              EXCEPT !.bond = GetDirBond(given, src, dst),
                                     !.stored = TRUE]
                     ELSE GraphCall("getDirBond", src, dst, TRUE)
    /\ UNCHANGED <<codecVars, apiVars, subject, given>>

NextGraph ==
    \/ CallAddAtom
    \/ CallAddBond
    \/ CallAddRingBond
    \/ CallUpdateBondOrder
    \/ CallKekulize
    \/ CallGetDirBond

SpecGraph == InitGraph /\ [][NextGraph]_vars

\* the sum of the orders of the bonds of the adjacency lists that meet atom
\* idx, in half bonds: its outgoing bonds, and the bonds that are not ring
\* bonds and come in from another atom; a ring bond is in the list of each of
\* its two atoms, and counts once for each
RECURSIVE AdjacentOrderSum(_, _, _)
AdjacentOrderSum(m, idx, k) ==
    IF k = 0 THEN 0
    ELSE LET b == m.bonds[k]
         IN  AdjacentOrderSum(m, idx, k - 1)
                + (IF b.src = idx \/ (b.dst = idx /\ ~b.ringBond)
                   THEN b.order ELSE 0)

\* C31: after any sequence of addAtom, addBond, addRingBond, updateBondOrder
\* and kekulize calls on a MolecularGraph, the bond count of every atom is
\* the sum of the orders of the bonds that meet it, a ring bond counted once
\* at each of its two atoms.
BondCountIsIncidentOrderSum ==
    subject = "mol-graph" =>
        \A idx \in 0..(MolLength(given) - 1) :
            GetBondCount(given, idx)
                = AdjacentOrderSum(given, idx, Len(given.bonds))

\* whether the DirectedBond at position id is in the adjacency list of src
InAdjList(m, src, id) ==
    \E i \in 1..Len(m.adjList[src + 1]) : m.adjList[src + 1][i] = id

\* every ring bond is one of two directed bonds of the same order, one for
\* each direction, each in the adjacency list of its source; and the bonds
\* _bondDict holds, which are the ones updateBondOrder and kekulize write
\* to, are bonds of the adjacency lists
RingBondsPaired(m) ==
    /\ \A k \in 1..Len(m.bonds) :
           m.bonds[k].ringBond =>
               /\ InAdjList(m, m.bonds[k].src, k)
               /\ \E j \in (1..Len(m.bonds)) \ {k} :
                      /\ m.bonds[j].ringBond
                      /\ m.bonds[j].src = m.bonds[k].dst
                      /\ m.bonds[j].dst = m.bonds[k].src
                      /\ m.bonds[j].order = m.bonds[k].order
                      /\ InAdjList(m, m.bonds[j].src, j)
    /\ \A key \in DOMAIN m.bondDict : InAdjList(m, key[1], m.bondDict[key])

\* the two ring bonds _bondDict holds for a pair of atoms have one order
DictCopiesAgree(m) ==
    \A key \in DOMAIN m.bondDict :
        m.bonds[m.bondDict[key]].ringBond =>
            /\ HasDirBond(m, key[2], key[1])
            /\ GetDirBond(m, key[2], key[1]).order
                   = m.bonds[m.bondDict[key]].order

\* addAtom, addBond, addRingBond and updateBondOrder keep the sums, when the
\* two ring bonds _bondDict holds for a pair agree
BondCountIsIncidentOrderSumStep ==
    [][(/\ subject = "mol-graph"
        /\ outputs'.op \in {"addAtom", "addBond", "addRingBond",
                            "updateBondOrder"}
        /\ DictCopiesAgree(given)
        /\ \A idx \in 0..(MolLength(given) - 1) :
              GetBondCount(given, idx)
                  = AdjacentOrderSum(given, idx, Len(given.bonds)))
       => \A idx \in 0..(MolLength(given') - 1) :
              GetBondCount(given', idx)
                  = AdjacentOrderSum(given', idx, Len(given'.bonds))]_vars

\* C32: in every graph built by the decoder or the SMILES parser, every ring
\* bond is stored as two directed bonds, a to b and b to a, whose orders are
\* equal at all times - after every step of the decoder, and after the
\* kekulize call of the encoder - and both are the bonds held in the
\* adjacency lists.
RingBondCopiesAgree ==
    /\ RingBondsPaired(mol)
    /\ (/\ flow = "encode-decode"
        /\ pc # "encode"
        /\ SmilesToMol(smiles)[2] = "") =>
            /\ RingBondsPaired(SmilesToMol(smiles)[1])
            /\ RingBondsPaired(Kekulize(SmilesToMol(smiles)[1]))

\* the parts of C32 that are about the decoder and about smilesToMol
RingBondCopiesAgreeBeforeKekulize ==
    /\ RingBondsPaired(mol)
    /\ (/\ flow = "encode-decode"
        /\ pc # "encode"
        /\ SmilesToMol(smiles)[2] = "") =>
            RingBondsPaired(SmilesToMol(smiles)[1])

\* C33: for a bond that is not a ring bond and is stored with source a and
\* destination b, a < b, getDirBond(a, b) returns the stored bond and
\* getDirBond(b, a) returns a new bond with src = b, dst = a and the same
\* order, stereo and ring flag; for a ring bond getDirBond returns a stored
\* bond in both directions.
GetDirBondGivesBothDirections ==
    (subject = "mol-graph" /\ outputs.op = "getDirBond") =>
        /\ HasDirBond(given, outputs.a, outputs.b) =>
               /\ ~outputs.threw
               /\ outputs.stored
               /\ outputs.bond = GetDirBond(given, outputs.a, outputs.b)
        /\ (/\ outputs.b < outputs.a
            /\ HasDirBond(given, outputs.b, outputs.a)
            /\ ~GetDirBond(given, outputs.b, outputs.a).ringBond
            /\ ~HasDirBond(given, outputs.a, outputs.b)) =>
               /\ ~outputs.threw
               /\ ~outputs.stored
               /\ outputs.bond =
                      [GetDirBond(given, outputs.b, outputs.a)
                          EXCEPT !.src = outputs.a, !.dst = outputs.b]

\* the part of C33 about the stored direction, and about ring bonds
GetDirBondGivesStoredDirection ==
    (subject = "mol-graph" /\ outputs.op = "getDirBond") =>
        /\ HasDirBond(given, outputs.a, outputs.b) =>
               /\ ~outputs.threw
               /\ outputs.stored
               /\ outputs.bond.src = outputs.a
               /\ outputs.bond.dst = outputs.b
        /\ (/\ HasDirBond(given, outputs.a, outputs.b)
            /\ outputs.bond.ringBond
            /\ DictCopiesAgree(given)) =>
               /\ HasDirBond(given, outputs.b, outputs.a)
               /\ GetDirBond(given, outputs.b, outputs.a).order
                      = outputs.bond.order

----------------------------------------------------------------------------
(* encoder on its own: encoder(smiles) under the default constraints, with  *)
(* the graph it emits from                                                  *)

\* the most tokens of a SMILES that is drawn, and the tokens it is drawn from
MaxEncoderTokens == 5
EncoderTokens == {"C", "[C@@H]", "(", ")", "1", "="}

\* SMILES with a ring closed after a branch, two rings at one atom, a
\* stereocentre in a ring of three and two fragments
GivenEncoderSmiles ==
    { <<"C", "1", "C", "C", "(", "O", ")", "1", "O">>,
      <<"C", "1", "C", "C", "1", "(", "O", ")", "O">>,
      <<"C", "1", "C", "2", "C", "1", "C", "2">>,
      <<"O", "[C@@H]", "1", "(", "F", ")", "C", "C", "1">>,
      <<"[C@@H]", "1", "(", "F", ")", "C", "C", "1">>,
      <<"C", "[C@@H]", "(", "F", ")", "O">>,
      <<"C", "1", "C", "C", "1", ".", "C", "(", "O", ")", "C">> }

EncoderInputs ==
    GivenEncoderSmiles \cup TokenStrings(EncoderTokens, MaxEncoderTokens)

NotApplied ==
    [applied |-> FALSE, emits |-> FALSE, parsed |-> EmptyMol,
     mol |-> EmptyMol, encoded |-> NotEncoded]

InitEncoder ==
    /\ flow = "encoder"
    /\ CodecIdle
    /\ ConstraintsNotCalled
    /\ subject = "encoder"
    /\ given \in EncoderInputs
    /\ outputs = NotApplied

\* encoder(given): parsed is the graph after kekulize, mol the graph after
\* the chirality loop, which fragmentToSelfies emits from; emits tells
\* whether the call gets as far as the chirality loop
ApplyEncoder ==
    /\ subject = "encoder"
    /\ ~outputs.applied
    /\ \E parsed \in {SmilesToMol(given)}, out \in {Encoder(constraints, given)} :
          outputs' =
              [applied |-> TRUE,
               emits |-> /\ given # <<>>
                         /\ ~MatchesMalformedPattern(given)
                         /\ JoinTokens(given) \notin InvalidSmiles
                         /\ parsed[2] = ""
                         /\ ~ViolatesBondConstraints(constraints,
                                                     Kekulize(parsed[1])),
               parsed |-> Kekulize(parsed[1]),
               mol |-> InvertChiralities(Kekulize(parsed[1])),
               encoded |-> out]
    /\ UNCHANGED <<codecVars, apiVars, subject, given>>

NextEncoder == ApplyEncoder

SpecEncoder == InitEncoder /\ [][NextEncoder]_vars

\* the positions of the outgoing bonds of atom idx in the order ring closes,
\* ring opens by destination, bonds that are not ring bonds; Ranked puts
\* positions in the order of their keys
RECURSIVE Ranked(_, _)
Ranked(positions, key) ==
    IF positions = {} THEN <<>>
    ELSE LET first == CHOOSE p \in positions :
                          \A q \in positions :
                              \/ key[p] < key[q]
                              \/ (key[p] = key[q] /\ p <= q)
         IN  <<first>> \o Ranked(positions \ {first}, key)

TraversalPermutation(m, idx) ==
    LET outBonds == GetOutDirBonds(m, idx)
        all == 1..Len(outBonds)
        closes == {p \in all : outBonds[p].ringBond
                                  /\ outBonds[p].src >= outBonds[p].dst}
        opens == {p \in all : outBonds[p].ringBond
                                 /\ outBonds[p].src < outBonds[p].dst}
        others == {p \in all : ~outBonds[p].ringBond}
    IN  Ranked(closes, [p \in all |-> 0])
            \o Ranked(opens, [p \in all |-> outBonds[p].dst])
            \o Ranked(others, [p \in all |-> 0])

Inversions(perm) ==
    Cardinality({pair \in (1..Len(perm)) \X (1..Len(perm)) :
                    pair[1] < pair[2] /\ perm[pair[1]] > perm[pair[2]]})

\* C34: before emission the encoder inverts the chirality marker of every
\* atom that has a marker and an outgoing ring bond, at any graph index, index
\* 0 included, if and only if the permutation ring closes, ring opens sorted
\* by destination, other bonds of the positions of its outgoing bonds has an
\* odd number of inversions; every other atom keeps its marker.
ChiralityInvertedOnOddPermutation ==
    (subject = "encoder" /\ outputs.applied /\ outputs.emits) =>
        \A idx \in 0..(MolLength(outputs.parsed) - 1) :
            GetAtom(outputs.mol, idx).chirality =
                IF /\ GetAtom(outputs.parsed, idx).chirality # ""
                   /\ HasOutRingBond(outputs.parsed, idx)
                   /\ Inversions(TraversalPermutation(outputs.parsed, idx)) % 2 = 1
                THEN InvertChirality(GetAtom(outputs.parsed, idx)).chirality
                ELSE GetAtom(outputs.parsed, idx).chirality

\* the same for the atoms after the first of the graph
ChiralityInvertedAfterIndexZero ==
    (subject = "encoder" /\ outputs.applied /\ outputs.emits) =>
        \A idx \in 1..(MolLength(outputs.parsed) - 1) :
            GetAtom(outputs.mol, idx).chirality =
                IF /\ GetAtom(outputs.parsed, idx).chirality # ""
                   /\ HasOutRingBond(outputs.parsed, idx)
                   /\ Inversions(TraversalPermutation(outputs.parsed, idx)) % 2 = 1
                THEN InvertChirality(GetAtom(outputs.parsed, idx)).chirality
                ELSE GetAtom(outputs.parsed, idx).chirality

\* an atom after the first whose marker was inverted
InvertedAfterIndexZero ==
    /\ subject = "encoder" /\ outputs.applied /\ outputs.emits
    /\ outputs.encoded.err = ""
    /\ \E idx \in 1..(MolLength(outputs.parsed) - 1) :
           /\ GetAtom(outputs.parsed, idx).chirality = "@@"
           /\ GetAtom(outputs.mol, idx).chirality = "@"

\* what a reader of the emitted symbols finds, going through them from left
\* to right as the SELFIES grammar lays them out: the atom symbols numbered
\* in the order they come, each joined to the atom before it in its chain
\* (kind "chain") or to the atom a Branch symbol hangs off (kind "branch");
\* a Branch or Ring symbol takes the L symbols after it as its index Q, a
\* branch being the Q + 1 symbols after the index and a ring closing from the
\* atom before it to the atom Q + 1 atoms earlier
NothingScanned == [n |-> 0, edges |-> {}, branchTokens |-> {}, ringTokens |-> {}]

RECURSIVE ScanSelfies(_, _, _, _, _, _)
ScanSelfies(toks, p, stop, prev, first, acc) ==
    IF p > stop THEN acc
    ELSE LET tok == toks[p]
             L == IndexLength(tok)
             Q == GetIndexFromSelfies(SubSeq(toks, p + 1, Min2(p + L, Len(toks))))
         IN  IF tok = "." THEN ScanSelfies(toks, p + 1, stop, Null, FALSE, acc)
             ELSE IF tok \in DOMAIN PROCESS_BRANCH_CACHE
             THEN ScanSelfies(toks, p + L + Q + 2, stop, prev, FALSE,
                      ScanSelfies(toks, p + L + 1, Min2(stop, p + L + 1 + Q),
                          prev, TRUE,
                          [acc EXCEPT !.branchTokens = @ \cup
                              {[at |-> p, owner |-> prev, symbol |-> tok,
                                complete |-> p + L + 1 + Q <= stop,
                                to |-> acc.n]}]))
             ELSE IF tok \in DOMAIN PROCESS_RING_CACHE
             THEN ScanSelfies(toks, p + L + 1, stop, prev, first,
                      [acc EXCEPT !.ringTokens = @ \cup
                          {[at |-> p, owner |-> prev, target |-> prev - Q - 1,
                            symbol |-> tok, complete |-> p + L <= stop]}])
             ELSE ScanSelfies(toks, p + 1, stop, acc.n, FALSE,
                      [acc EXCEPT
                          !.n = @ + 1,
                          !.edges = @ \cup
                              (IF prev = Null THEN {}
                               ELSE {[from |-> prev, to |-> acc.n,
                                      kind |-> IF first THEN "branch"
                                               ELSE "chain"]})])

Scanned(toks) == ScanSelfies(toks, 1, Len(toks), Null, FALSE, NothingScanned)

\* the bonds of atom idx that are not ring bonds, in adjacency order
NonRingBonds(m, idx) ==
    SelectSeq(GetOutDirBonds(m, idx), LAMBDA b : ~b.ringBond)

\* encoder returned: it emitted from the graph outputs.mol
EncoderReturned ==
    /\ subject = "encoder"
    /\ outputs.applied
    /\ outputs.emits
    /\ outputs.encoded.err = ""

\* every atom is emitted once, in the order of the graph, and is joined to
\* the atom its bond that is not a ring bond comes from; every Branch symbol
\* has its index and its whole branch after it, the branch starting with the
\* atom the bond goes to, and carries the order of the bond
EmitsTheTree(m, seen) ==
    /\ seen.n = MolLength(m)
    /\ {<<e.from, e.to>> : e \in seen.edges} =
           UNION {{<<idx, NonRingBonds(m, idx)[j].dst>> :
                      j \in 1..Len(NonRingBonds(m, idx))} :
                  idx \in 0..(MolLength(m) - 1)}
    /\ \A bt \in seen.branchTokens :
           /\ bt.complete
           /\ bt.owner # Null
           /\ \E j \in 1..Len(NonRingBonds(m, bt.owner)) :
                  /\ NonRingBonds(m, bt.owner)[j].dst = bt.to
                  /\ bt.symbol =
                         "[" \o BondToSelfies(NonRingBonds(m, bt.owner)[j], FALSE)
                             \o "Branch" \o IntToStr(IndexLength(bt.symbol))
                             \o "]"

\* C35: last bond wins - for an atom with k >= 1 outgoing bonds that are not
\* ring bonds, the encoder continues the main chain through the last of them
\* in adjacency order, and emits each earlier one as a Branch symbol followed
\* by L index symbols that decode to the number of symbols of the branch
\* minus 1, followed by the symbols of the branch.
LastBondWins ==
    EncoderReturned =>
        \E seen \in {Scanned(outputs.encoded.selfies)} :
            /\ EmitsTheTree(outputs.mol, seen)
            /\ \A idx \in 0..(MolLength(outputs.mol) - 1) :
                   \A j \in 1..Len(NonRingBonds(outputs.mol, idx)) :
                       [from |-> idx,
                        to |-> NonRingBonds(outputs.mol, idx)[j].dst,
                        kind |-> IF j = Len(NonRingBonds(outputs.mol, idx))
                                 THEN "chain" ELSE "branch"] \in seen.edges

\* the rule the loop of fragmentToSelfies follows: the chain continues
\* through the last outgoing bond of the atom when that is no ring bond, and
\* every other bond that is no ring bond is a branch
LastOutgoingBondWins ==
    EncoderReturned =>
        \E seen \in {Scanned(outputs.encoded.selfies)} :
            /\ EmitsTheTree(outputs.mol, seen)
            /\ \A idx \in 0..(MolLength(outputs.mol) - 1) :
                   \A j \in 1..Len(GetOutDirBonds(outputs.mol, idx)) :
                       ~GetOutDirBonds(outputs.mol, idx)[j].ringBond =>
                           [from |-> idx,
                            to |-> GetOutDirBonds(outputs.mol, idx)[j].dst,
                            kind |-> IF j = Len(GetOutDirBonds(outputs.mol, idx))
                                     THEN "chain" ELSE "branch"] \in seen.edges

\* the ring bonds from src to dst
RingBondsFrom(m, src, dst) ==
    {k \in 1..Len(m.bonds) : /\ m.bonds[k].ringBond
                             /\ m.bonds[k].src = src
                             /\ m.bonds[k].dst = dst}

\* C36: every ring bond of the encoded graph yields exactly one Ring symbol
\* in the output of the encoder, emitted among the symbols of its
\* higher-indexed atom and never at the lower-indexed one, and followed by L
\* index symbols that decode to srcIndex - dstIndex - 1, L being the number in
\* the symbol Ring<L>.
RingTokenAtHigherEndpoint ==
    EncoderReturned =>
        \E seen \in {Scanned(outputs.encoded.selfies)} :
            /\ \A rt \in seen.ringTokens :
                   /\ rt.complete
                   /\ rt.owner # Null
                   /\ rt.owner > rt.target
                   /\ RingBondsFrom(outputs.mol, rt.owner, rt.target) # {}
            /\ \A k \in 1..Len(outputs.mol.bonds) :
                   (/\ outputs.mol.bonds[k].ringBond
                    /\ outputs.mol.bonds[k].src >= outputs.mol.bonds[k].dst) =>
                       Cardinality({rt \in seen.ringTokens :
                                       /\ rt.owner = outputs.mol.bonds[k].src
                                       /\ rt.target = outputs.mol.bonds[k].dst})
                           = Cardinality(RingBondsFrom(outputs.mol,
                                             outputs.mol.bonds[k].src,
                                             outputs.mol.bonds[k].dst))

\* a ring closed after a branch was encoded: the Ring symbol comes after the
\* symbols of the branch
C36Witness ==
    /\ EncoderReturned
    /\ given = <<"C", "1", "C", "C", "(", "O", ")", "1", "O">>
    /\ \E rt \in Scanned(outputs.encoded.selfies).ringTokens :
           /\ rt.owner = 2
           /\ rt.target = 0
           /\ \E bt \in Scanned(outputs.encoded.selfies).branchTokens :
                  bt.owner = 2 /\ bt.at < rt.at


----------------------------------------------------------------------------
(* decoder: the call ends, and the input is read once *)

\* the steps of a decoder call, by the position of the call
DecoderRuns ==
    \/ pc = "start" /\ DoDecoderStart
    \/ pc = "derive" /\ (\/ DoBranchReturn \/ DoFragmentDone
                          \/ DoLoopReadThrows \/ DoEpsilon \/ DoBranchSkipped
                          \/ DoRingSkipped \/ DoInvalidSymbol
                          \/ DoAtomDerived \/ DoRingTaken \/ DoBranchTaken
                          \/ DoIndexReadThrows)
    \/ pc = "rings" /\ (DoRingsSkipped \/ DoRingsFormed \/ DoRingStep)
    \/ pc = "smiles" /\ DoSerialize

\* decoder is sequential code: a step that the call can take is taken
SpecFair == Spec /\ WF_vars(DecoderRuns)

\* what the generator of a fragment yields of these symbols of the input
Yielded(toks) ==
    SelectSeq(toks, LAMBDA t : t \notin {"[nop]", ".", HANG})

\* the part of these symbols that follows their last '.'
RECURSIVE LastFragment(_)
LastFragment(toks) ==
    IF toks = <<>> \/ toks[Len(toks)] = "." THEN <<>>
    ELSE Append(LastFragment(SubSeq(toks, 1, Len(toks) - 1)), toks[Len(toks)])

\* the symbols of an input given in full that are off the stream
Consumed == SubSeq(selfies, 1, Len(selfies) - Len(stream.toks))

\* the symbols this step takes off the stream
TakenOff == SubSeq(stream.toks, 1, Len(stream.toks) - Len(stream'.toks))

\* the stream holds the rest of the input, the outermost frame has counted
\* each symbol that left the stream in its fragment once, and a branch frame
\* has counted fewer symbols than its caller
EachSymbolCountedOnce ==
    stream.draw = {} =>
        /\ Len(stream.toks) <= Len(selfies)
        /\ stream.toks = SubSeq(selfies, Len(selfies) - Len(stream.toks) + 1,
                                Len(selfies))
        /\ pc = "derive" =>
              /\ frames[1].index = Len(Yielded(LastFragment(Consumed)))
              /\ \A k \in 2..Len(frames) :
                    frames[k].index < frames[k - 1].index

\* a step leaves a suffix of the stream, and what the frames received in it
\* is what left the stream, in order
StreamOnlyMovesForward ==
    /\ stream'.free <= stream.free
    /\ (stream.draw # {} /\ pc = "derive" /\ pc' = "derive") =>
           frames'[1].index - frames[1].index <= stream.free - stream'.free
    /\ (stream.draw = {} /\ pc # "encode") =>
           /\ Len(stream'.toks) <= Len(stream.toks)
           /\ stream'.toks = SubSeq(stream.toks,
                                    Len(stream.toks) - Len(stream'.toks) + 1,
                                    Len(stream.toks))
           /\ Yielded(TakenOff) # <<>> =>
                  Yielded(TakenOff) = <<symbolRead'>> \o indexRead'

\* C37: a decoder call that has started returns or throws, and its symbol
\* stream only moves forward: each symbol of a fragment is read at most
\* once by the main loop, the index reads and the branch frames together
DecoderEndsAndReadsForward ==
    /\ [](pc = "start" => <>(pc \in {"done", "error"}))
    /\ []EachSymbolCountedOnce
    /\ [][StreamOnlyMovesForward]_vars

\* a branch frame has read symbols of an input given in full, after its
\* caller read the branch symbol and an index symbol
BranchFrameHasRead ==
    /\ stream.draw = {}
    /\ pc = "derive"
    /\ Len(frames) = 2
    /\ frames[2].index > 0
    /\ frames[1].index >= frames[2].index + 2
    /\ Len(Yielded(Consumed)) = frames[1].index

----------------------------------------------------------------------------
(* decoder: the state of a frame and the free capacity of its atom *)

\* the state a frame is in between two iterations of its loop: for a frame
\* that waits for a branch, the state it takes when the branch returns
StateBetweenSteps(k) ==
    IF k = Len(frames) THEN frames[k].state ELSE frames[k].nextState

\* C38: in every frame, a state that is a positive number is at most the
\* bonding capacity of prevAtom minus its bond count, when prevAtom is an
\* atom of the graph
StateWithinFreeCapacity ==
    pc = "derive" =>
        \A k \in 1..Len(frames) :
            (StateBetweenSteps(k) > 0 /\ frames[k].prevAtom >= 0) =>
                Ord(StateBetweenSteps(k))
                    <= FreeCapacity(constraints, mol, frames[k].prevAtom)

\* a branch has bonded its first atom to the atom of the caller, and both
\* frames have a positive state left
BranchBondedWithStateLeft ==
    /\ pc = "derive"
    /\ Len(frames) = 2
    /\ frames[1].nextState > 0
    /\ frames[1].prevAtom >= 0
    /\ frames[2].prevAtom > frames[1].prevAtom
    /\ frames[2].state > 0
    /\ HasBond(mol, frames[1].prevAtom, frames[2].prevAtom)

----------------------------------------------------------------------------
(* decoder: the graph has one bond for a pair of atoms *)

\* the bonds the adjacency lists hold, and the bonds _bondDict holds
AdjacentBonds(m) ==
    UNION {{m.adjList[i][j] : j \in 1..Len(m.adjList[i])} :
              i \in 1..Len(m.adjList)}
IndexedBonds(m) == {m.bondDict[key] : key \in DOMAIN m.bondDict}

\* _bondDict and the adjacency lists hold the same bonds, each once: a bond
\* is under the key of its two atoms and in the list of its source
SameBondsInIndexAndLists(m) ==
    /\ AdjacentBonds(m) = IndexedBonds(m)
    /\ AdjacentBonds(m) = 1..Len(m.bonds)
    /\ \A key \in DOMAIN m.bondDict :
           /\ m.bonds[m.bondDict[key]].src = key[1]
           /\ m.bonds[m.bondDict[key]].dst = key[2]
           /\ InAdjList(m, key[1], m.bondDict[key])
    /\ \A i \in 1..Len(m.adjList) :
           \A j, k \in 1..Len(m.adjList[i]) :
               /\ m.bonds[m.adjList[i][j]].src = i - 1
               /\ m.adjList[i][j] = m.adjList[i][k] => j = k

\* two bonds of the graph join different pairs of atoms, or are the two
\* directions of one ring bond
OneBondPerPair(m) ==
    \A j, k \in 1..Len(m.bonds) :
        (/\ j # k
         /\ {m.bonds[j].src, m.bonds[j].dst} = {m.bonds[k].src, m.bonds[k].dst})
            => /\ m.bonds[j].ringBond /\ m.bonds[k].ringBond
               /\ m.bonds[j].src = m.bonds[k].dst
               /\ m.bonds[j].order = m.bonds[k].order
               /\ Cardinality({b \in 1..Len(m.bonds) :
                      {m.bonds[b].src, m.bonds[b].dst}
                          = {m.bonds[k].src, m.bonds[k].dst}}) = 2

NoSelfBond(m) == \A k \in 1..Len(m.bonds) : m.bonds[k].src # m.bonds[k].dst

\* formRingsBilocally handles a triple whose atoms are bonded and have free
\* capacity: no bond is added, and the bond has the order of the triple
\* more, up to a triple bond
DeferredRingRaisesOrder ==
    (pc = "rings" /\ ringPos' = ringPos + 1) =>
        LET ring == rings[ringPos + 1]
            leftFree == FreeCapacity(constraints, mol, ring.left)
            rightFree == FreeCapacity(constraints, mol, ring.right)
        IN  (/\ ring.left # ring.right
             /\ leftFree > 0
             /\ rightFree > 0
             /\ HasBond(mol, ring.left, ring.right)) =>
                /\ pc' = "rings"
                /\ Len(mol'.bonds) = Len(mol.bonds)
                /\ mol'.adjList = mol.adjList
                /\ mol'.bondDict = mol.bondDict
                /\ GetDirBond(mol', ring.left, ring.right).order
                       = Min2(GetDirBond(mol, ring.left, ring.right).order
                                  + Min3(Ord(ring.order), leftFree, rightFree),
                              Ord(3))
                /\ GetDirBond(mol', ring.left, ring.right).order
                       >= GetDirBond(mol, ring.left, ring.right).order

\* C39: the graph the decoder builds has no bond from an atom to itself and
\* at most one bond for a pair of atoms; a queued ring between two bonded
\* atoms raises the order of their bond and adds none; _bondDict and the
\* adjacency lists hold the same bonds
DecoderGraphIsSimple ==
    /\ [](NoSelfBond(mol) /\ OneBondPerPair(mol)
              /\ SameBondsInIndexAndLists(mol))
    /\ [][DeferredRingRaisesOrder]_vars

\* ring formation has handled two triples of one pair of atoms: the second
\* found the ring bond of the first, which is a double bond now
RingBondRaised ==
    /\ pc = "rings"
    /\ \E i, j \in 1..ringPos :
           /\ i < j
           /\ rings[i].left = rings[j].left
           /\ rings[i].right = rings[j].right
           /\ rings[i].left # rings[i].right
           /\ HasDirBond(mol, rings[i].right, rings[i].left)
           /\ GetDirBond(mol, rings[i].left, rings[i].right).ringBond
           /\ GetDirBond(mol, rings[i].left, rings[i].right).order = Ord(2)
           /\ GetDirBond(mol, rings[i].right, rings[i].left).order = Ord(2)

----------------------------------------------------------------------------
(* decoder: the SMILES it returns and the graph it built *)

\* the characters a ring-closure label is written with
LabelChars == {Digit(n) : n \in 0..9}

\* in each fragment of the SMILES, a ring-closure label that is written is
\* written twice
RECURSIVE LabelsWrittenTwice(_)
LabelsWrittenTwice(toks) ==
    LET fragment == FirstFragment(toks)
    IN  /\ \A c \in LabelChars :
               Cardinality({i \in 1..Len(fragment) : fragment[i] = c})
                   \in {0, 2}
        /\ Len(fragment) < Len(toks) =>
               LabelsWrittenTwice(AfterFirstFragment(toks))

\* decoder has returned the SMILES of a graph that has atoms
DecoderReturnedGraph ==
    /\ pc \in {"done", "reencoded"}
    /\ err = ""
    /\ MolLength(mol) > 0

\* C40: smilesToMol reads the SMILES the decoder returns as a graph with
\* as many atoms as the graph the decoder built and the same bond order for
\* every pair of atoms, ring bonds of order 2 or 3 included, and every
\* ring-closure label of the SMILES is written twice
EmittedSmilesDescribesGraph ==
    DecoderReturnedGraph =>
        \E parsed \in {SmilesToMol(result)} :
            /\ parsed[2] = ""
            /\ MolLength(parsed[1]) = MolLength(mol)
            /\ Edges(parsed[1]) = Edges(mol)
            /\ LabelsWrittenTwice(result)

\* the ring bonds of the graph are single bonds between atoms that are
\* written in one fragment, and every atom is written
RingBondsSingleAndWritten(m, toks) ==
    /\ \A k \in 1..Len(m.bonds) :
           m.bonds[k].ringBond => m.bonds[k].order = Ord(1)
    /\ LabelsWrittenTwice(toks)
    /\ Cardinality({i \in 1..Len(toks) :
                       toks[i] \notin LabelChars \cup {"(", ")", "=", "#",
                                                       "/", "\\", "."}})
           = MolLength(m)

\* when every atom is written and the ring bonds are single bonds within a
\* fragment, the SMILES is read as the graph the decoder built
EmittedSmilesDescribesSingleRings ==
    (DecoderReturnedGraph /\ RingBondsSingleAndWritten(mol, result)) =>
        \E parsed \in {SmilesToMol(result)} :
            /\ parsed[2] = ""
            /\ MolLength(parsed[1]) = MolLength(mol)
            /\ Edges(parsed[1]) = Edges(mol)

\* a ring bond of order 2 is written without its order
DoubleRingBondReturned ==
    /\ DecoderReturnedGraph
    /\ \E k \in 1..Len(mol.bonds) :
           mol.bonds[k].ringBond /\ mol.bonds[k].order = Ord(2)
    /\ MolLength(SmilesToMol(result)[1]) = MolLength(mol)
    /\ SmilesToMol(result)[2] = ""

=============================================================================
